---- MODULE Spec2Model ----
(***************************************************************************)
(* Model of the Mapbox style-reference rewriting engine                    *)
(* (src/src/mapbox-transform.ts).                                          *)
(*                                                                         *)
(* A JavaScript string is a sequence of one-character strings, so that     *)
(* indexOf, split, join, the locator regular expression and template       *)
(* concatenation are computed character by character.                      *)
(***************************************************************************)
EXTENDS Integers, Sequences, FiniteSets, TLC

(***************************************************************************)
(* String literals of the source.                                          *)
(***************************************************************************)
MapboxPrefix == <<"m", "a", "p", "b", "o", "x", ":">>
ApiUrl == <<"h", "t", "t", "p", "s", ":", "/", "/", "a", "p", "i", ".", "m", "a", "p", "b", "o", "x", ".", "c", "o", "m">>
StylesSub == <<"/", "s", "t", "y", "l", "e", "s", "/">>
SpriteSub == <<"/", "s", "p", "r", "i", "t", "e">>
SpritesSub == <<"/", "s", "p", "r", "i", "t", "e", "s", "/">>
FontsSub == <<"/", "f", "o", "n", "t", "s", "/">>
V4Sub == <<"/", "v", "4", "/">>
StylesV1 == <<"/", "s", "t", "y", "l", "e", "s", "/", "v", "1">>
FontsV1 == <<"/", "f", "o", "n", "t", "s", "/", "v", "1">>
V4Slash == <<"/", "v", "4", "/">>
DotJson == <<".", "j", "s", "o", "n">>
Secure == <<"s", "e", "c", "u", "r", "e">>
AccessTokenEq == <<"a", "c", "c", "e", "s", "s", "_", "t", "o", "k", "e", "n", "=">>
At2x == <<"@", "2", "x">>
Json == <<"j", "s", "o", "n">>
SlashSprite == <<"/", "s", "p", "r", "i", "t", "e">>
ColonSlashSlash == <<":", "/", "/">>

(***************************************************************************)
(* Character classes of the regular expression in parseUrl.                *)
(***************************************************************************)
WordChars ==
    {"a", "b", "c", "d", "e", "f", "g", "h", "i", "j", "k", "l", "m",
     "n", "o", "p", "q", "r", "s", "t", "u", "v", "w", "x", "y", "z",
     "A", "B", "C", "D", "E", "F", "G", "H", "I", "J", "K", "L", "M",
     "N", "O", "P", "Q", "R", "S", "T", "U", "V", "W", "X", "Y", "Z",
     "0", "1", "2", "3", "4", "5", "6", "7", "8", "9", "_"}

LineTerminators == {"\n", "\r"}

(***************************************************************************)
(* JavaScript string primitives.                                           *)
(***************************************************************************)
\* Length of the longest prefix of s made of characters of (RunIn) or of
\* characters outside (RunNotIn) a class: what the greedy repetition of a
\* character class consumes.
RunIn(s, class) ==
    CHOOSE n \in 0..Len(s) :
        /\ \A i \in 1..n : s[i] \in class
        /\ n = Len(s) \/ s[n + 1] \notin class

RunNotIn(s, class) ==
    CHOOSE n \in 0..Len(s) :
        /\ \A i \in 1..n : s[i] \notin class
        /\ n = Len(s) \/ s[n + 1] \in class

Drop(s, n) == SubSeq(s, n + 1, Len(s))
Take(s, n) == SubSeq(s, 1, n)

\* String.prototype.indexOf: zero-based position of the first occurrence
\* of sub in s, -1 when there is none.
IndexOf(s, sub) ==
    LET hits == {j \in 0..(Len(s) - Len(sub)) : SubSeq(s, j + 1, j + Len(sub)) = sub}
    IN  IF hits = {} THEN -1
        ELSE CHOOSE j \in hits : \A k \in hits : j <= k

\* String.prototype.split with a non-empty separator.
RECURSIVE Split(_, _)
Split(s, sep) ==
    LET i == IndexOf(s, sep)
    IN  IF i = -1 THEN <<s>>
        ELSE <<Take(s, i)>> \o Split(Drop(s, i + Len(sep)), sep)

\* Array.prototype.join.
RECURSIVE Join(_, _)
Join(parts, sep) ==
    IF parts = <<>> THEN <<>>
    ELSE IF Len(parts) = 1 THEN parts[1]
    ELSE parts[1] \o sep \o Join(Tail(parts), sep)

\* Array.prototype.filter(part => part.length > 0).
RECURSIVE FilterNonEmpty(_)
FilterNonEmpty(parts) ==
    IF parts = <<>> THEN <<>>
    ELSE IF Len(Head(parts)) > 0 THEN <<Head(parts)>> \o FilterNonEmpty(Tail(parts))
    ELSE FilterNonEmpty(Tail(parts))

(***************************************************************************)
(* isMapboxURL: url.indexOf('mapbox:') === 0.                              *)
(***************************************************************************)
\* Mutant of isMapboxURL: the word "mapbox" anywhere in the string.
isMapboxURLHostWord(url) == IndexOf(url, <<"m", "a", "p", "b", "o", "x">>) > -1

\* Mutant of isMapboxURL: the prefix anywhere in the string.
isMapboxURLAnywhere(url) == IndexOf(url, MapboxPrefix) > -1

isMapboxURL(url) == IndexOf(url, MapboxPrefix) = 0

(***************************************************************************)
(* parseUrl matches the locator regular expression: a run of one or more   *)
(* word characters, "://", a run of characters other than "/" and "?"      *)
(* (the authority), optionally "/" followed by one or more characters      *)
(* other than "?" (the path), optionally "?", optionally one or more       *)
(* characters other than line terminators (the query).                     *)
(* Every repetition is greedy and everything after the authority is        *)
(* optional, so the first match is the one with the longest runs.  The     *)
(* match is computed group by group, each operator taking what is left of  *)
(* the string.  ok = FALSE stands for the thrown                           *)
(* Error('Unable to parse URL object').                                    *)
(***************************************************************************)
ParseFailure == [ok |-> FALSE, protocol |-> <<>>, authority |-> <<>>, path |-> <<>>, params |-> <<>>]

\* The returned object: parts[3] || '/', parts[4] ? parts[4].split('&') : [].
parsedUrl(protocol, authority, pathGroup, queryGroup) ==
    [ok        |-> TRUE,
     protocol  |-> protocol,
     authority |-> authority,
     path      |-> IF pathGroup # <<>> THEN pathGroup ELSE <<"/">>,
     params    |-> IF queryGroup # <<>> THEN Split(queryGroup, <<"&">>) ELSE <<>>]

\* The optional "?" and the query group.
SkipQuestion(rest) == IF rest # <<>> /\ rest[1] = "?" THEN Tail(rest) ELSE rest
QueryGroup(rest) == Take(rest, RunNotIn(rest, LineTerminators))

matchQuery(protocol, authority, pathGroup, rest) ==
    parsedUrl(protocol, authority, pathGroup, QueryGroup(SkipQuestion(rest)))

\* The path group: "/" and at least one character other than "?".
PathLen(rest) ==
    IF Len(rest) >= 2 /\ rest[1] = "/" /\ rest[2] # "?"
    THEN 1 + RunNotIn(Tail(rest), {"?"})
    ELSE 0

matchPath(protocol, authority, rest) ==
    matchQuery(protocol, authority, Take(rest, PathLen(rest)), Drop(rest, PathLen(rest)))

\* The authority group.
AuthorityLen(rest) == RunNotIn(rest, {"/", "?"})

matchAuthority(protocol, rest) ==
    matchPath(protocol, Take(rest, AuthorityLen(rest)), Drop(rest, AuthorityLen(rest)))

\* Mutant of matchScheme: the word before "://" may be empty.
matchSchemeEmptyWord(url, n) ==
    IF Len(url) >= n + 3 /\ SubSeq(url, n + 1, n + 3) = ColonSlashSlash
    THEN matchAuthority(Take(url, n), Drop(url, n + 3))
    ELSE ParseFailure

\* The scheme group and "://".
matchScheme(url, n) ==
    IF n >= 1 /\ Len(url) >= n + 3 /\ SubSeq(url, n + 1, n + 3) = ColonSlashSlash
    THEN matchAuthority(Take(url, n), Drop(url, n + 3))
    ELSE ParseFailure

parseUrl(url) == matchScheme(url, RunIn(url, WordChars))

\* A normalizer's outcome: the URL it returns, or the error parseUrl threw.
Returned(u) == [ok |-> TRUE, url |-> u]
Thrown == [ok |-> FALSE, url |-> <<>>]

(***************************************************************************)
(* formatUrl: replaces protocol and authority by those of the API          *)
(* endpoint, pushes access_token and prints the URL.                       *)
(***************************************************************************)
\* The returned template string, params being the array after the push.
printUrl(apiUrlObject, path, params) ==
    apiUrlObject.protocol \o ColonSlashSlash \o apiUrlObject.authority \o path
        \o (IF Len(params) > 0 THEN <<"?">> \o Join(params, <<"&">>) ELSE <<>>)

\* Mutant of formatUrl: access_token is put first (unshift for push).
formatUrlTokenFirst(urlObject, accessToken) ==
    printUrl(parseUrl(ApiUrl), urlObject.path,
             <<AccessTokenEq \o accessToken>> \o urlObject.params)

\* Mutant of formatUrl: the locator's own scheme and authority are printed.
formatUrlKeepsAuthority(urlObject, accessToken) ==
    printUrl(urlObject, urlObject.path, Append(urlObject.params, AccessTokenEq \o accessToken))

\* Mutant of formatUrl: an empty token is not appended.
formatUrlSkipsEmptyToken(urlObject, accessToken) ==
    printUrl(parseUrl(ApiUrl), urlObject.path,
             IF accessToken = <<>> THEN urlObject.params
             ELSE Append(urlObject.params, AccessTokenEq \o accessToken))

formatUrl(urlObject, accessToken) ==
    printUrl(parseUrl(ApiUrl), urlObject.path,
             Append(urlObject.params, AccessTokenEq \o accessToken))

(***************************************************************************)
(* normalizeStyleURL, normalizeGlyphsURL, normalizeSourceURL: each parses  *)
(* the locator and rewrites the parsed object.                             *)
(***************************************************************************)
styleUrlOf(urlObject, accessToken) ==
    IF ~urlObject.ok THEN Thrown
    ELSE Returned(formatUrl([urlObject EXCEPT !.path = StylesV1 \o @], accessToken))

\* Used by the mutant normalizeStyleURLWithOwner.
styleUrlWithOwnerOf(urlObject, accessToken) ==
    IF ~urlObject.ok THEN Thrown
    ELSE Returned(formatUrl([urlObject EXCEPT
             !.path = StylesV1 \o <<"/">> \o urlObject.authority \o @], accessToken))

\* Mutant of normalizeStyleURL: the owner (authority) is kept in the path.
normalizeStyleURLWithOwner(url, accessToken) == styleUrlWithOwnerOf(parseUrl(url), accessToken)

normalizeStyleURL(url, accessToken) == styleUrlOf(parseUrl(url), accessToken)

glyphsUrlOf(urlObject, accessToken) ==
    IF ~urlObject.ok THEN Thrown
    ELSE Returned(formatUrl([urlObject EXCEPT !.path = FontsV1 \o @], accessToken))

\* Mutant of normalizeGlyphsURL: the style prefix pasted for the fonts one.
normalizeGlyphsURLStylesPrefix(url, accessToken) == styleUrlOf(parseUrl(url), accessToken)

\* Mutant of normalizeGlyphsURL: the authority is kept before the path.
glyphsUrlWithAuthorityOf(urlObject, accessToken) ==
    IF ~urlObject.ok THEN Thrown
    ELSE Returned(formatUrl([urlObject EXCEPT
             !.path = FontsV1 \o <<"/">> \o urlObject.authority \o @], accessToken))
normalizeGlyphsURLWithAuthority(url, accessToken) ==
    glyphsUrlWithAuthorityOf(parseUrl(url), accessToken)

normalizeGlyphsURL(url, accessToken) == glyphsUrlOf(parseUrl(url), accessToken)

sourceUrlOf(urlObject, accessToken) ==
    IF ~urlObject.ok THEN Thrown
    ELSE Returned(formatUrl([urlObject EXCEPT
                                !.path = V4Slash \o urlObject.authority \o DotJson,
                                !.params = Append(@, Secure)], accessToken))

\* Used by the mutant normalizeSourceURLFromPath.
sourceUrlFromPathOf(urlObject, accessToken) ==
    IF ~urlObject.ok THEN Thrown
    ELSE Returned(formatUrl([urlObject EXCEPT
                                !.path = V4Slash \o urlObject.path \o DotJson,
                                !.params = Append(@, Secure)], accessToken))

\* Mutant of normalizeSourceURL: the tileset id is taken from the path.
normalizeSourceURLFromPath(url, accessToken) == sourceUrlFromPathOf(parseUrl(url), accessToken)

normalizeSourceURL(url, accessToken) == sourceUrlOf(parseUrl(url), accessToken)

(***************************************************************************)
(* normalizeSpriteURL                                                      *)
(***************************************************************************)
\* The fallback branch (username or styleId missing): path is the parsed
\* path split on ".".
spriteFallbackPath(path) ==
    StylesV1
        \o (IF IndexOf(path[1], At2x) > -1 THEN Split(path[1], At2x)[1] ELSE path[1])
        \o SlashSprite
        \o (IF IndexOf(path[1], At2x) > -1 THEN At2x ELSE <<>>)
        \o <<".">>
        \o (IF Len(path) >= 2 /\ path[2] # <<>> THEN path[2] ELSE Json)

\* The main branch: username and styleId are the first two path parts.
spriteMainPath(url, pathParts) ==
    StylesV1 \o <<"/">> \o pathParts[1] \o <<"/">> \o pathParts[2] \o SlashSprite
        \o (IF IndexOf(url, At2x) > -1 THEN At2x ELSE <<>>)

\* Used by the mutant normalizeSpriteURLKeepsDraft.
spriteMainPathKeepsDraft(url, pathParts) ==
    StylesV1 \o <<"/">> \o Join(pathParts, <<"/">>) \o SlashSprite
        \o (IF IndexOf(url, At2x) > -1 THEN At2x ELSE <<>>)

spritePath(url, path, pathParts) ==
    IF Len(pathParts) < 2
    THEN spriteFallbackPath(Split(path, <<".">>))
    ELSE spriteMainPath(url, pathParts)

\* Used by the mutant normalizeSpriteURLKeepsDraft.
spritePathKeepsDraft(url, path, pathParts) ==
    IF Len(pathParts) < 2
    THEN spriteFallbackPath(Split(path, <<".">>))
    ELSE spriteMainPathKeepsDraft(url, pathParts)

spriteUrlOf(url, urlObject, accessToken) ==
    IF ~urlObject.ok THEN Thrown
    ELSE Returned(formatUrl(
             [urlObject EXCEPT
                 !.path = spritePath(url, urlObject.path,
                                     FilterNonEmpty(Split(urlObject.path, <<"/">>)))],
             accessToken))

\* Used by the mutant normalizeSpriteURLKeepsDraft.
spriteUrlKeepsDraftOf(url, urlObject, accessToken) ==
    IF ~urlObject.ok THEN Thrown
    ELSE Returned(formatUrl(
             [urlObject EXCEPT
                 !.path = spritePathKeepsDraft(url, urlObject.path,
                                               FilterNonEmpty(Split(urlObject.path, <<"/">>)))],
             accessToken))

\* Mutant of normalizeSpriteURL: the draft/version segments are kept.
normalizeSpriteURLKeepsDraft(url, accessToken) == spriteUrlKeepsDraftOf(url, parseUrl(url), accessToken)

normalizeSpriteURL(url, accessToken) == spriteUrlOf(url, parseUrl(url), accessToken)

(***************************************************************************)
(* transformMapboxUrl: the classification cascade.  kind is "url" for a    *)
(* returned {url}, "undefined" for the pass-through, "throw" when the      *)
(* chosen normalizer threw.                                                *)
(***************************************************************************)
Outcome(r) == IF r.ok THEN [kind |-> "url", url |-> r.url] ELSE [kind |-> "throw", url |-> <<>>]
Undefined == [kind |-> "undefined", url |-> <<>>]

\* Mutant of transformMapboxUrl: the field role is consulted before the
\* substring rules.
transformMapboxUrlRoleFirst(url, resourceType, accessToken) ==
    IF resourceType = "Source"
        THEN Outcome(normalizeSourceURL(url, accessToken))
    ELSE IF IndexOf(url, StylesSub) > -1 /\ IndexOf(url, SpriteSub) = -1
        THEN Outcome(normalizeStyleURL(url, accessToken))
    ELSE IF IndexOf(url, SpritesSub) > -1
        THEN Outcome(normalizeSpriteURL(url, accessToken))
    ELSE IF IndexOf(url, FontsSub) > -1
        THEN Outcome(normalizeGlyphsURL(url, accessToken))
    ELSE IF IndexOf(url, V4Sub) > -1
        THEN Outcome(normalizeSourceURL(url, accessToken))
    ELSE Undefined

\* Mutant of transformMapboxUrl: the Source role is not a rule of its own.
transformMapboxUrlNoRole(url, resourceType, accessToken) ==
    IF IndexOf(url, StylesSub) > -1 /\ IndexOf(url, SpriteSub) = -1
        THEN Outcome(normalizeStyleURL(url, accessToken))
    ELSE IF IndexOf(url, SpritesSub) > -1
        THEN Outcome(normalizeSpriteURL(url, accessToken))
    ELSE IF IndexOf(url, FontsSub) > -1
        THEN Outcome(normalizeGlyphsURL(url, accessToken))
    ELSE IF IndexOf(url, V4Sub) > -1
        THEN Outcome(normalizeSourceURL(url, accessToken))
    ELSE Undefined

transformMapboxUrl(url, resourceType, accessToken) ==
    IF IndexOf(url, StylesSub) > -1 /\ IndexOf(url, SpriteSub) = -1
        THEN Outcome(normalizeStyleURL(url, accessToken))
    ELSE IF IndexOf(url, SpritesSub) > -1
        THEN Outcome(normalizeSpriteURL(url, accessToken))
    ELSE IF IndexOf(url, FontsSub) > -1
        THEN Outcome(normalizeGlyphsURL(url, accessToken))
    ELSE IF IndexOf(url, V4Sub) > -1
        THEN Outcome(normalizeSourceURL(url, accessToken))
    ELSE IF resourceType = "Source"
        THEN Outcome(normalizeSourceURL(url, accessToken))
    ELSE Undefined

(***************************************************************************)
(* The style document.  An optional field is a tagged value: t is the      *)
(* JavaScript type of what the field holds ("undefined" when absent).      *)
(***************************************************************************)
Absent == [t |-> "undefined", v |-> <<>>]
Str(s) == [t |-> "string", v |-> s]
\* A structured (multi-sprite) sprite value: an array of {id, url}.
MultiSprite(u) == [t |-> "array", v |-> <<>>, items |-> <<[id |-> "default", url |-> u]>>]

\* JavaScript truthiness of an optional string field.
Truthy(f) == f.t = "array" \/ (f.t = "string" /\ f.v # <<>>)

NoProjection == [present |-> FALSE, obj |-> <<>>]
Projection(o) == [present |-> TRUE, obj |-> o]

\* delete (style.projection as any).name
DeleteName(o) == [k \in (DOMAIN o) \ {"name"} |-> o[k]]

\* Mutant of stripProjectionName: the name is left in place.
stripProjectionNameKept(projection) == projection

stripProjectionName(projection) ==
    IF projection.present /\ "name" \in DOMAIN projection.obj
    THEN Projection(DeleteName(projection.obj))
    ELSE projection

(***************************************************************************)
(* transformMapboxStyle.  A step's result is the document (or field) after *)
(* it and whether parseUrl threw; an exception ends the call, leaving      *)
(* every later field as it was.                                            *)
(***************************************************************************)
\* if (transformed) { field = transformed.url }
assignTransformed(f, transformed) ==
    IF transformed.kind = "throw" THEN [f |-> f, threw |-> TRUE]
    ELSE IF transformed.kind = "url" THEN [f |-> Str(transformed.url), threw |-> FALSE]
    ELSE [f |-> f, threw |-> FALSE]

\* One reference field, rewritten when its condition holds and
\* transformMapboxUrl returns {url}.
rewriteField(f, eligible, resourceType, accessToken) ==
    IF ~eligible THEN [f |-> f, threw |-> FALSE]
    ELSE assignTransformed(f, transformMapboxUrl(f.v, resourceType, accessToken))

\* Mutant of sourceEligible: any non-empty url is handed to transformMapboxUrl.
sourceEligibleAnyUrl(source) == Truthy(source.url)

sourceEligible(source) == Truthy(source.url) /\ isMapboxURL(source.url.v)
\* Mutant of spriteEligible: any string sprite is handed to transformMapboxUrl.
spriteEligibleAnyString(sprite) == Truthy(sprite) /\ sprite.t = "string"

spriteEligible(sprite) == Truthy(sprite) /\ sprite.t = "string" /\ isMapboxURL(sprite.v)
glyphsEligible(glyphs) == Truthy(glyphs) /\ isMapboxURL(glyphs.v)

\* for (const sourceId in style.sources): the entries in iteration order.
RECURSIVE transformSources(_, _)

\* Mutant of putSource: the entry is replaced by a new descriptor holding
\* only the url.
putSourceFresh(source, r, rest) ==
    [entries |-> <<[id |-> source.id, url |-> r.f, attrs |-> <<>>]>> \o rest.entries,
     threw |-> rest.threw]

putSource(source, r, rest) ==
    [entries |-> <<[source EXCEPT !.url = r.f]>> \o rest.entries, threw |-> rest.threw]

sourceStep(entries, r, accessToken) ==
    IF r.threw THEN [entries |-> entries, threw |-> TRUE]
    ELSE putSource(Head(entries), r, transformSources(Tail(entries), accessToken))

transformSources(entries, accessToken) ==
    IF entries = <<>> THEN [entries |-> <<>>, threw |-> FALSE]
    ELSE sourceStep(entries,
                    rewriteField(Head(entries).url, sourceEligible(Head(entries)),
                                 "Source", accessToken),
                    accessToken)

\* The three groups of references, in the order of the code; so, sp and gl
\* are the results of the step just taken.
glyphsDone(s, gl) == [style |-> [s EXCEPT !.glyphs = gl.f], threw |-> gl.threw]

transformGlyphs(s, accessToken) ==
    glyphsDone(s, rewriteField(s.glyphs, glyphsEligible(s.glyphs), "Glyphs", accessToken))

spriteDone(s, sp, accessToken) ==
    IF sp.threw THEN [style |-> s, threw |-> TRUE]
    ELSE transformGlyphs([s EXCEPT !.sprite = sp.f], accessToken)

transformSprite(s, accessToken) ==
    spriteDone(s, rewriteField(s.sprite, spriteEligible(s.sprite), "Sprite", accessToken),
               accessToken)

sourcesDone(s, so, accessToken) ==
    IF so.threw THEN [style |-> [s EXCEPT !.sources.entries = so.entries], threw |-> TRUE]
    ELSE transformSprite([s EXCEPT !.sources.entries = so.entries], accessToken)

transformStyleSources(s, accessToken) ==
    IF s.sources.present
    THEN sourcesDone(s, transformSources(s.sources.entries, accessToken), accessToken)
    ELSE transformSprite(s, accessToken)

\* Mutant of transformMapboxStyle: the projection name is removed after
\* the references were walked, so not at all when the walk throws.
stripProjectionNameAfter(r) ==
    IF r.threw THEN r ELSE [r EXCEPT !.style.projection = stripProjectionName(@)]
transformMapboxStyleStripLast(s, accessToken) ==
    stripProjectionNameAfter(transformStyleSources(s, accessToken))

\* Mutant of transformMapboxStyle: the call is atomic, an error restores
\* the document as it was passed.
restoreOnError(s, r) == IF r.threw THEN [style |-> s, threw |-> TRUE] ELSE r
transformMapboxStyleAtomic(s, accessToken) ==
    restoreOnError(s, transformStyleSources([s EXCEPT !.projection = stripProjectionName(@)],
                                            accessToken))

transformMapboxStyle(s, accessToken) ==
    transformStyleSources([s EXCEPT !.projection = stripProjectionName(@)], accessToken)

\* Objects are known by reference; StyleRef is the object bound to the
\* parameter style, FreshRef an object the function would have created.
StyleRef == "style"
FreshRef == "copy"

\* Mutant of returnStyle: a new object is returned.
returnStyleCopy(r) ==
    IF r.threw THEN [kind |-> "throw", url |-> <<>>] ELSE [kind |-> "object", ref |-> FreshRef]

\* return style
returnStyle(r) ==
    IF r.threw THEN [kind |-> "throw", url |-> <<>>] ELSE [kind |-> "object", ref |-> StyleRef]

(***************************************************************************)
(* Inputs.                                                                 *)
(***************************************************************************)
MaxSegs == 3        \* path segments of a generated locator
MaxParams == 2      \* query fragments of a generated locator
MaxSources == 2     \* entries of a document's sources
MaxCalls == 2       \* calls of transformMapboxStyle on one document
MaxInvocations == 3 \* calls of transformMapboxStyle by one caller, each on its own document
MaxTiles == 2       \* tile URLs configured for one mode of the map view

MapboxScheme == MapboxPrefix \o <<"/", "/">>
TKN == <<"T", "K", "N">>
\* A token holding characters that are reserved in a query string.
TokenReserved == <<"a", " ", "b", "&", "c", "=", "?", "#">>
Tokens == {<<>>, TKN, TokenReserved}
ResourceTypes == {"Source", "Sprite", "Glyphs"}

Authorities == {<<>>, <<"u", "s", "e", "r">>, <<"s", "t", "y", "l", "e", "s">>, <<"s", "p", "r", "i", "t", "e", "s">>, <<"f", "o", "n", "t", "s">>, <<"v", "4">>}
Segments == {<<"u", "s", "e", "r">>, <<"s", "t", "y", "l", "e", "i", "d", "@", "2", "x">>, <<"f", "o", "n", "t", "s">>}

Digits == <<"1", "2", "3", "4", "5", "6", "7", "8", "9">>
Fragment(i) == IF i % 2 = 1 THEN <<"k", Digits[i], "=", "v">> ELSE <<"k", Digits[i]>>

RECURSIVE PathOf(_)
PathOf(segs) == IF segs = <<>> THEN <<>> ELSE <<"/">> \o Head(segs) \o PathOf(Tail(segs))

Paths == {PathOf(segs) : segs \in UNION {[1..n -> Segments] : n \in 0..MaxSegs}}
Queries == {<<>>} \cup {<<"?">> \o Join([i \in 1..k |-> Fragment(i)], <<"&">>) : k \in 0..MaxParams}
GeneratedUrls == {MapboxScheme \o a \o p \o q : a \in Authorities, p \in Paths, q \in Queries}

UrlTileset == MapboxScheme \o <<"u", "s", "e", "r", ".", "t", "i", "l", "e", "s", "e", "t">>
UrlTilesetId == MapboxScheme \o <<"t", "i", "l", "e", "s", "e", "t", "-", "i", "d">>
UrlSprite == MapboxScheme \o <<"s", "p", "r", "i", "t", "e", "s", "/", "u", "s", "e", "r", "/", "s", "t", "y", "l", "e">>
UrlSpriteRetina == MapboxScheme \o <<"s", "p", "r", "i", "t", "e", "s", "/", "u", "s", "e", "r", "/", "s", "t", "y", "l", "e", "i", "d", "@", "2", "x">>
UrlSpriteDraft == MapboxScheme \o <<"s", "p", "r", "i", "t", "e", "s", "/", "u", "s", "e", "r", "/", "s", "t", "y", "l", "e", "i", "d", "/", "d", "r", "a", "f", "t", "T", "o", "k", "e", "n">>
UrlSpriteBare == MapboxScheme \o <<"s", "p", "r", "i", "t", "e", "s", "/">>
UrlSpriteDots == MapboxScheme \o <<"s", "p", "r", "i", "t", "e", "s", "/", "x", ".", "y", ".", "p", "n", "g">>
UrlGlyphs == MapboxScheme \o <<"f", "o", "n", "t", "s", "/", "u", "s", "e", "r", "/", "{", "f", "o", "n", "t", "s", "t", "a", "c", "k", "}", "/", "{", "r", "a", "n", "g", "e", "}", ".", "p", "b", "f">>
UrlOwnerStyle == MapboxScheme \o <<"u", "s", "e", "r", "/", "s", "t", "y", "l", "e", "i", "d">>
UrlStyleSprite == MapboxScheme \o <<"s", "t", "y", "l", "e", "s", "/", "u", "s", "e", "r", "/", "s", "p", "r", "i", "t", "e">>
UrlStyleV4 == MapboxScheme \o <<"s", "t", "y", "l", "e", "s", "/", "v", "4", "/", "x">>
UrlSpriteV4 == MapboxScheme \o <<"s", "p", "r", "i", "t", "e", "s", "/", "v", "4", "/", "x">>
UrlPlain == MapboxScheme \o <<"x">>
UrlOneSlash == MapboxPrefix \o <<"/", "o", "n", "l", "y", "o", "n", "e", "s", "l", "a", "s", "h">>
UrlOneSlashSprite == MapboxPrefix \o <<"/", "s", "p", "r", "i", "t", "e", "s", "/", "x">>
UrlOneSlashFonts == MapboxPrefix \o <<"/", "f", "o", "n", "t", "s", "/", "x">>
UrlPrefixOnly == MapboxPrefix
UrlNoSlashes == MapboxPrefix \o <<"x">>
UrlNoColon == <<"m", "a", "p", "b", "o", "x">>
UrlCapital == <<"M", "a", "p", "b", "o", "x", ":", "/", "/", "x">>
UrlUpperCase == <<"M", "A", "P", "B", "O", "X", ":", "x">>
UrlPrefixLater == <<"x", "m", "a", "p", "b", "o", "x", ":", "/", "/", "a">>
UrlPrefixInPath == <<"h", "t", "t", "p", "s", ":", "/", "/", "x", "/", "m", "a", "p", "b", "o", "x", ":", "/", "/", "y">>
UrlNoScheme == <<":", "/", "/", "x">>
UrlDashScheme == <<"a", "-", "b", ":", "/", "/", "x">>
UrlSlashThenQuery == <<"m", "a", "p", "b", "o", "x", ":", "/", "/", "a", "/", "?", "x">>
UrlSpriteOldRetina == MapboxScheme \o <<"s", "p", "r", "i", "t", "e", "s", "/", "x", "@", "2", "x", ".", "p", "n", "g">>
UrlHttpsV4 == <<"h", "t", "t", "p", "s", ":", "/", "/", "a", ".", "b", "/", "v", "4", "/", "t", ".", "j", "s", "o", "n">>
UrlHttpsSprites == <<"h", "t", "t", "p", "s", ":", "/", "/", "x", "/", "s", "p", "r", "i", "t", "e", "s", "/", "y">>
UrlHttpsFonts == <<"h", "t", "t", "p", "s", ":", "/", "/", "x", "/", "f", "o", "n", "t", "s", "/", "y">>
UrlHttpsMarkers == <<"h", "t", "t", "p", "s", ":", "/", "/", "x", "/", "s", "t", "y", "l", "e", "s", "/", "s", "p", "r", "i", "t", "e", "s", "/", "f", "o", "n", "t", "s", "/", "v", "4", "/", "y">>
UrlHttpsStyle == <<"h", "t", "t", "p", "s", ":", "/", "/", "x", "/", "s", "t", "y", "l", "e", "s", "/", "y", "?", "z">>

NamedUrls ==
    {UrlTileset, UrlTilesetId, UrlSprite, UrlSpriteRetina, UrlSpriteDraft, UrlSpriteBare,
     UrlSpriteDots, UrlGlyphs, UrlOwnerStyle, UrlStyleSprite, UrlStyleV4, UrlSpriteV4,
     UrlPlain, UrlOneSlash, UrlOneSlashSprite, UrlOneSlashFonts, UrlHttpsV4, UrlHttpsSprites,
     UrlHttpsFonts, UrlHttpsMarkers, UrlHttpsStyle, <<>>, UrlPrefixOnly, UrlNoSlashes,
     UrlNoColon, UrlCapital, UrlUpperCase, UrlPrefixLater, UrlPrefixInPath, UrlNoScheme,
     UrlDashScheme, UrlSlashThenQuery, UrlSpriteOldRetina}

Urls == GeneratedUrls \cup NamedUrls

\* Documents.
SourceIds == <<"a", "b", "c", "d">>
SourceUrlValues ==
    {Absent, Str(<<>>), Str(UrlTileset), Str(UrlOneSlash),
     Str(MapboxScheme \o <<"f", "o", "n", "t", "s", "/", "x">>),
     Str(UrlHttpsMarkers)}
SpriteValues ==
    {Absent, Str(UrlSprite), Str(UrlOneSlashSprite), Str(UrlOneSlash), MultiSprite(UrlSprite),
     Str(UrlHttpsSprites)}
GlyphsValues == {Absent, Str(UrlGlyphs), Str(UrlOneSlashFonts), Str(UrlPlain), Str(UrlHttpsFonts)}
ProjectionValues ==
    {NoProjection, Projection([type |-> "globe"]), Projection([name |-> "globe", type |-> "globe"])}

\* The other attributes of a source descriptor, which the engine never reads.
SourceAttrs(i) == IF i % 2 = 0 THEN [type |-> "vector", tiles |-> <<UrlTileset>>] ELSE <<>>
SourcesOf(urls) ==
    [present |-> TRUE,
     entries |-> [i \in 1..Len(urls) |-> [id |-> SourceIds[i], url |-> urls[i], attrs |-> SourceAttrs(i)]]]
NoSources == [present |-> FALSE, entries |-> <<>>]
SourcesValues ==
    {NoSources} \cup {SourcesOf(urls) : urls \in UNION {[1..n -> SourceUrlValues] : n \in 0..MaxSources}}

\* Top-level fields of a document the engine never reads.
Layers == <<[id |-> "land", type |-> "background"], [id |-> "roads", source |-> "a"]>>

Docs ==
    [projection : ProjectionValues, sources : SourcesValues, sprite : SpriteValues,
     glyphs : GlyphsValues, version : {8}, layers : {Layers}]

EmptyDoc ==
    [projection |-> NoProjection, sources |-> NoSources, sprite |-> Absent, glyphs |-> Absent,
     version |-> 8, layers |-> Layers]

(***************************************************************************)
(* State.                                                                  *)
(*   pc           where the caller is: "idle", "called" (inside            *)
(*                transformMapboxStyle), "ready" (a locator chosen),       *)
(*                "returned", "threw"                                      *)
(*   style        the document object, mutated in place                    *)
(*   arg          the document as it was when the call was made            *)
(*   accessToken  the token of the call                                    *)
(*   calls        how many times transformMapboxStyle was called on the    *)
(*                document                                                 *)
(*   log          the finished calls of a caller that calls several times: *)
(*                what each was given and how it ended                     *)
(*   tileUrls     the tile URLs the map view is configured with, those of  *)
(*                the mode in use                                          *)
(*   response     how the map view's fetch of the style document went      *)
(*   fn, url, resourceType, ret                                            *)
(*                a call of one function of the engine on one locator and  *)
(*                its outcome; for transformMapboxStyle, what it returned  *)
(***************************************************************************)
VARIABLES pc, style, arg, accessToken, calls, fn, url, resourceType, ret, log, tileUrls, response

vars ==
    <<pc, style, arg, accessToken, calls, fn, url, resourceType, ret, log, tileUrls, response>>

Init ==
    /\ pc = "idle"
    /\ style = EmptyDoc
    /\ arg = EmptyDoc
    /\ accessToken = <<>>
    /\ calls = 0
    /\ fn = "none"
    /\ url = <<>>
    /\ resourceType = "none"
    /\ ret = Undefined
    /\ log = <<>>
    /\ tileUrls = <<>>
    /\ response = "none"

\* A caller passes a document and a token to transformMapboxStyle.
CallTransformMapboxStyle ==
    /\ pc = "idle"
    /\ \E doc \in Docs, tok \in Tokens :
        /\ style' = doc
        /\ arg' = doc
        /\ accessToken' = tok
    /\ calls' = 1
    /\ pc' = "called"
    /\ UNCHANGED <<response, tileUrls, log, fn, url, resourceType, ret>>

\* The caller passes the document a call returned to transformMapboxStyle
\* again, with the same token.
CallAgainTransformMapboxStyle ==
    /\ pc = "returned"
    /\ calls \in 1..(MaxCalls - 1)
    /\ arg' = style
    /\ calls' = calls + 1
    /\ pc' = "called"
    /\ UNCHANGED <<response, tileUrls, log, style, accessToken, fn, url, resourceType, ret>>

\* The body of transformMapboxStyle, start to return or throw: the object
\* passed is mutated, and the reference to it is what the call returns.
TransformMapboxStyle ==
    /\ pc = "called"
    /\ LET r == transformMapboxStyle(style, accessToken)
       IN  /\ style' = r.style
           /\ ret' = returnStyle(r)
           /\ pc' = IF r.threw THEN "threw" ELSE "returned"
    /\ UNCHANGED <<response, tileUrls, log, arg, accessToken, calls, fn, url, resourceType>>

Next ==
    \/ CallTransformMapboxStyle
    \/ CallAgainTransformMapboxStyle
    \/ TransformMapboxStyle

Spec == Init /\ [][Next]_vars

(***************************************************************************)
(* A caller that calls transformMapboxStyle several times, each time with  *)
(* a document of its own and a token.                                      *)
(***************************************************************************)
DocTileset ==
    [EmptyDoc EXCEPT !.projection = Projection([name |-> "globe", type |-> "globe"]),
                     !.sources = SourcesOf(<<Str(UrlTileset)>>),
                     !.sprite = Str(UrlSprite),
                     !.glyphs = Str(UrlGlyphs)]
DocMalformedSprite == [DocTileset EXCEPT !.sprite = Str(UrlOneSlashSprite)]
DocForeign == [EmptyDoc EXCEPT !.glyphs = Str(UrlHttpsFonts)]
CallDocs == {EmptyDoc, DocTileset, DocMalformedSprite, DocForeign}

Invoke ==
    /\ pc \in {"idle", "returned", "threw"}
    /\ calls < MaxInvocations
    /\ \E doc \in CallDocs, tok \in Tokens :
        /\ style' = doc
        /\ arg' = doc
        /\ accessToken' = tok
    /\ calls' = calls + 1
    /\ pc' = "called"
    /\ UNCHANGED <<response, tileUrls, log, fn, url, resourceType, ret>>

\* What a finished call is remembered by.
logEntry(doc, tok, r) == [doc |-> doc, token |-> tok, style |-> r.style, threw |-> r.threw]

\* Mutant of ReturnFromInvocation: the token of the call before is kept
\* and used in place of the one passed.
ReturnFromInvocationTokenKept ==
    /\ pc = "called"
    /\ LET r == transformMapboxStyle(style, IF log = <<>> THEN accessToken ELSE log[Len(log)].token)
       IN  /\ style' = r.style
           /\ ret' = returnStyle(r)
           /\ pc' = IF r.threw THEN "threw" ELSE "returned"
           /\ log' = Append(log, logEntry(arg, accessToken, r))
    /\ UNCHANGED <<arg, accessToken, calls, fn, url, resourceType, tileUrls, response>>

\* The body of transformMapboxStyle, as in TransformMapboxStyle; the caller
\* notes what it passed and what came of it.
ReturnFromInvocation ==
    /\ pc = "called"
    /\ LET r == transformMapboxStyle(style, accessToken)
       IN  /\ style' = r.style
           /\ ret' = returnStyle(r)
           /\ pc' = IF r.threw THEN "threw" ELSE "returned"
           /\ log' = Append(log, logEntry(arg, accessToken, r))
    /\ UNCHANGED <<arg, accessToken, calls, fn, url, resourceType, tileUrls, response>>

NextCalls == Invoke \/ ReturnFromInvocation

SpecCalls == Init /\ [][NextCalls]_vars

(***************************************************************************)
(* The map view's getMapStyle (map-view.ts): it picks the style URL from   *)
(* the configured tile URLs, fetches the style document, and hands it to   *)
(* transformMapboxStyle when the style URL carries a token.  The awaits    *)
(* of fetch and of response.json() separate its steps; url holds styleUrl, *)
(* style the fetched document, calls the calls of transformMapboxStyle.    *)
(***************************************************************************)
DefaultStyleBright == <<"h", "t", "t", "p", "s", ":", "/", "/", "t", "i", "l", "e", "s", ".", "o", "p", "e", "n", "f", "r", "e", "e", "m", "a", "p", ".", "o", "r", "g", "/", "s", "t", "y", "l", "e", "s", "/", "b", "r", "i", "g", "h", "t">>
DefaultStyleDark == <<"h", "t", "t", "p", "s", ":", "/", "/", "t", "i", "l", "e", "s", ".", "o", "p", "e", "n", "f", "r", "e", "e", "m", "a", "p", ".", "o", "r", "g", "/", "s", "t", "y", "l", "e", "s", "/", "d", "a", "r", "k">>
\* The URLs a user may configure as map tiles: style URLs with a token,
\* with an empty one, with a parameter whose name ends in access_token,
\* without parameters, and a tile template.
ConfiguredUrls ==
    { \* https://a/s?access_token=TKN
      <<"h", "t", "t", "p", "s", ":", "/", "/", "a", "/", "s", "?", "a", "c", "c", "e", "s", "s", "_", "t", "o", "k", "e", "n", "=", "T", "K", "N">>,
      \* https://a/s?access_token=TKN&v=1
      <<"h", "t", "t", "p", "s", ":", "/", "/", "a", "/", "s", "?", "a", "c", "c", "e", "s", "s", "_", "t", "o", "k", "e", "n", "=", "T", "K", "N", "&", "v", "=", "1">>,
      \* https://a/s?access_token=
      <<"h", "t", "t", "p", "s", ":", "/", "/", "a", "/", "s", "?", "a", "c", "c", "e", "s", "s", "_", "t", "o", "k", "e", "n", "=">>,
      \* https://a/s?access_token=&v=1
      <<"h", "t", "t", "p", "s", ":", "/", "/", "a", "/", "s", "?", "a", "c", "c", "e", "s", "s", "_", "t", "o", "k", "e", "n", "=", "&", "v", "=", "1">>,
      \* https://a/s?my_access_token=TKN
      <<"h", "t", "t", "p", "s", ":", "/", "/", "a", "/", "s", "?", "m", "y", "_", "a", "c", "c", "e", "s", "s", "_", "t", "o", "k", "e", "n", "=", "T", "K", "N">>,
      \* https://a/s.json
      <<"h", "t", "t", "p", "s", ":", "/", "/", "a", "/", "s", ".", "j", "s", "o", "n">>,
      \* https://t/{z}/{x}/{y}.png
      <<"h", "t", "t", "p", "s", ":", "/", "/", "t", "/", "{", "z", "}", "/", "{", "x", "}", "/", "{", "y", "}", ".", "p", "n", "g">> }
TileConfigs == UNION {[1..n -> ConfiguredUrls] : n \in 0..MaxTiles}

\* The documents a style server may answer with.
FetchedDocs ==
    [projection : ProjectionValues, sources : {NoSources}, sprite : SpriteValues,
     glyphs : GlyphsValues, version : {8}, layers : {Layers}] \cup CallDocs

\* url.includes('{z}') || url.includes('{x}') || url.includes('{y}')
isTileTemplateUrl(u) ==
    \/ IndexOf(u, <<"{", "z", "}">>) > -1
    \/ IndexOf(u, <<"{", "x", "}">>) > -1
    \/ IndexOf(u, <<"{", "y", "}">>) > -1

\* isDark && this.mapTilesDark.length > 0 ? this.mapTilesDark : this.mapTiles
tileUrlsOf(isDark, mapTiles, mapTilesDark) ==
    IF isDark /\ Len(mapTilesDark) > 0 THEN mapTilesDark ELSE mapTiles

\* The style URL; the empty string stands for "build a raster style".
chooseStyleUrl(isDark, tiles) ==
    IF Len(tiles) = 0 THEN (IF isDark THEN DefaultStyleDark ELSE DefaultStyleBright)
    ELSE IF Len(tiles) = 1 /\ ~isTileTemplateUrl(tiles[1]) THEN tiles[1]
    ELSE <<>>

\* The custom style built from the tile URLs.
rasterStyle(tiles) ==
    [version |-> 8,
     sources |-> [i \in 1..Len(tiles) |->
                    [id |-> <<"custom-tiles", i - 1>>, type |-> "raster",
                     tiles |-> <<tiles[i]>>, tileSize |-> 256]],
     layers  |-> [i \in 1..Len(tiles) |->
                    [id |-> <<"custom-layer", i - 1>>, type |-> "raster",
                     source |-> <<"custom-tiles", i - 1>>]]]

\* styleUrl.match(/access_token=([^&]+)/): the zero-based positions where
\* "access_token=" is followed by a character other than "&", and group 1
\* of the leftmost one; the empty string when there is no match.
TokenPattern == <<"a", "c", "c", "e", "s", "s", "_", "t", "o", "k", "e", "n", "=">>
tokenMatches(styleUrl) ==
    {j \in 0..(Len(styleUrl) - Len(TokenPattern) - 1) :
        /\ SubSeq(styleUrl, j + 1, j + Len(TokenPattern)) = TokenPattern
        /\ styleUrl[j + Len(TokenPattern) + 1] # "&"}
tokenAt(styleUrl, j) ==
    Take(Drop(styleUrl, j + Len(TokenPattern)),
         RunNotIn(Drop(styleUrl, j + Len(TokenPattern)), {"&"}))
firstMatch(hits) == CHOOSE j \in hits : \A k \in hits : j <= k
tokenOfMatches(styleUrl, hits) == IF hits = {} THEN <<>> ELSE tokenAt(styleUrl, firstMatch(hits))
accessTokenOf(styleUrl) == tokenOfMatches(styleUrl, tokenMatches(styleUrl))

\* Mutant of returnedUrl: the query string is cut off the URL.
returnedUrlWithoutQuery(styleUrl) == [kind |-> "string", url |-> Split(styleUrl, <<"?">>)[1]]

returnedUrl(styleUrl) == [kind |-> "string", url |-> styleUrl]
returnedDocument(doc) == [kind |-> "document", style |-> doc]
returnedRaster(tiles) == [kind |-> "raster", style |-> rasterStyle(tiles)]

\* getMapStyle up to its first await: the style URL is chosen; without one
\* the raster style is built and returned.
startOf(isDark, tiles, styleUrl) ==
    /\ tileUrls' = tiles
    /\ url' = styleUrl
    /\ fn' = "getMapStyle"
    /\ IF styleUrl # <<>>
       THEN pc' = "fetch" /\ ret' = ret
       ELSE pc' = "returned" /\ ret' = returnedRaster(tiles)
    /\ UNCHANGED <<style, arg, accessToken, calls, resourceType, log, response>>

GetMapStyle ==
    /\ pc = "idle"
    /\ \E isDark \in BOOLEAN, mapTiles \in TileConfigs, mapTilesDark \in TileConfigs :
        startOf(isDark, tileUrlsOf(isDark, mapTiles, mapTilesDark),
                chooseStyleUrl(isDark, tileUrlsOf(isDark, mapTiles, mapTilesDark)))

\* await fetch(styleUrl) rejects: caught, the URL is returned.
FetchRejects ==
    /\ pc = "fetch"
    /\ response' = "rejected"
    /\ ret' = returnedUrl(url)
    /\ pc' = "returned"
    /\ UNCHANGED <<tileUrls, log, style, arg, accessToken, calls, fn, url, resourceType>>

\* await fetch(styleUrl) resolves; when response.ok is false the URL is
\* returned.
FetchResponds ==
    /\ pc = "fetch"
    /\ \E ok \in BOOLEAN :
        IF ok THEN pc' = "json" /\ ret' = ret /\ response' = "ok"
        ELSE pc' = "returned" /\ ret' = returnedUrl(url) /\ response' = "not ok"
    /\ UNCHANGED <<tileUrls, log, style, arg, accessToken, calls, fn, url, resourceType>>

\* await response.json() rejects: caught, the URL is returned.
JsonRejects ==
    /\ pc = "json"
    /\ response' = "json rejected"
    /\ ret' = returnedUrl(url)
    /\ pc' = "returned"
    /\ UNCHANGED <<tileUrls, log, style, arg, accessToken, calls, fn, url, resourceType>>

\* Mutant of afterTransform: an error of transformMapboxStyle is not
\* caught, the document is returned as the error left it.
afterTransformKeepsDocument(r, tok) ==
    /\ accessToken' = tok
    /\ calls' = calls + 1
    /\ style' = r.style
    /\ ret' = returnedDocument(r.style)

\* The end of the try block once transformMapboxStyle was called with the
\* token tok on styleJson: its result r is returned, or its error caught
\* and the URL returned.
afterTransform(r, tok) ==
    /\ accessToken' = tok
    /\ calls' = calls + 1
    /\ style' = r.style
    /\ ret' = IF r.threw THEN returnedUrl(url) ELSE returnedDocument(r.style)

\* accessToken ? transformMapboxStyle(styleJson, accessToken) : styleJson
afterJson(styleJson, tok) ==
    IF tok # <<>>
    THEN afterTransform(transformMapboxStyle(styleJson, tok), tok)
    ELSE /\ accessToken' = tok
         /\ calls' = calls
         /\ style' = styleJson
         /\ ret' = returnedDocument(styleJson)

\* await response.json() resolves with the style document.
JsonResolves ==
    /\ pc = "json"
    /\ \E styleJson \in FetchedDocs :
        /\ arg' = styleJson
        /\ afterJson(styleJson, accessTokenOf(url))
    /\ response' = "document"
    /\ pc' = "returned"
    /\ UNCHANGED <<tileUrls, log, fn, url, resourceType>>

NextMap ==
    \/ GetMapStyle
    \/ FetchRejects
    \/ FetchResponds
    \/ JsonRejects
    \/ JsonResolves

SpecMap == Init /\ [][NextMap]_vars

(***************************************************************************)
(* The functions of the engine applied to one locator.                     *)
(***************************************************************************)
ChooseLocator ==
    /\ pc = "idle"
    /\ \E u \in Urls, tok \in Tokens :
        /\ url' = u
        /\ accessToken' = tok
    /\ pc' = "ready"
    /\ UNCHANGED <<response, tileUrls, log, style, arg, calls, fn, resourceType, ret>>

ApplyTransformMapboxUrl ==
    /\ pc = "ready"
    /\ \E role \in ResourceTypes :
        /\ resourceType' = role
        /\ ret' = transformMapboxUrl(url, role, accessToken)
    /\ fn' = "transformMapboxUrl"
    /\ pc' = "returned"
    /\ UNCHANGED <<response, tileUrls, log, style, arg, accessToken, calls, url>>

ApplyIsMapboxURL ==
    /\ pc = "ready"
    /\ ret' = [kind |-> "boolean", value |-> isMapboxURL(url)]
    /\ fn' = "isMapboxURL"
    /\ pc' = "returned"
    /\ UNCHANGED <<response, tileUrls, log, style, arg, accessToken, calls, url, resourceType>>

\* What a call of parseUrl ends with: the object returned, or the error.
parseOutcome(r) ==
    IF r.ok
    THEN [kind |-> "parsed", protocol |-> r.protocol, authority |-> r.authority,
          path |-> r.path, params |-> r.params]
    ELSE [kind |-> "throw", url |-> <<>>]

ApplyParseUrl ==
    /\ pc = "ready"
    /\ ret' = parseOutcome(parseUrl(url))
    /\ fn' = "parseUrl"
    /\ pc' = "returned"
    /\ UNCHANGED <<response, tileUrls, log, style, arg, accessToken, calls, url, resourceType>>

ApplyNormalizeStyleURL ==
    /\ pc = "ready"
    /\ ret' = Outcome(normalizeStyleURL(url, accessToken))
    /\ fn' = "normalizeStyleURL"
    /\ pc' = "returned"
    /\ UNCHANGED <<response, tileUrls, log, style, arg, accessToken, calls, url, resourceType>>

ApplyNormalizeGlyphsURL ==
    /\ pc = "ready"
    /\ ret' = Outcome(normalizeGlyphsURL(url, accessToken))
    /\ fn' = "normalizeGlyphsURL"
    /\ pc' = "returned"
    /\ UNCHANGED <<response, tileUrls, log, style, arg, accessToken, calls, url, resourceType>>

ApplyNormalizeSourceURL ==
    /\ pc = "ready"
    /\ ret' = Outcome(normalizeSourceURL(url, accessToken))
    /\ fn' = "normalizeSourceURL"
    /\ pc' = "returned"
    /\ UNCHANGED <<response, tileUrls, log, style, arg, accessToken, calls, url, resourceType>>

ApplyNormalizeSpriteURL ==
    /\ pc = "ready"
    /\ ret' = Outcome(normalizeSpriteURL(url, accessToken))
    /\ fn' = "normalizeSpriteURL"
    /\ pc' = "returned"
    /\ UNCHANGED <<response, tileUrls, log, style, arg, accessToken, calls, url, resourceType>>

NextUrl ==
    \/ ChooseLocator
    \/ ApplyIsMapboxURL
    \/ ApplyParseUrl
    \/ ApplyTransformMapboxUrl
    \/ ApplyNormalizeStyleURL
    \/ ApplyNormalizeGlyphsURL
    \/ ApplyNormalizeSourceURL
    \/ ApplyNormalizeSpriteURL

SpecUrl == Init /\ [][NextUrl]_vars

(***************************************************************************)
(* Vocabulary of the properties.  The expected strings are written out     *)
(* here, independently of the literals the engine is built from.           *)
(***************************************************************************)
ApiHost == <<"h", "t", "t", "p", "s", ":", "/", "/", "a", "p", "i", ".", "m", "a", "p", "b", "o", "x", ".", "c", "o", "m">>
Finished == pc \in {"returned", "threw"}
ReturnedUrl(u) == [kind |-> "url", url |-> u]
Contains(s, sub) == \E j \in 0..(Len(s) - Len(sub)) : SubSeq(s, j + 1, j + Len(sub)) = sub
EndsWith(s, suffix) == Len(s) >= Len(suffix) /\ SubSeq(s, Len(s) - Len(suffix) + 1, Len(s)) = suffix
StartsWith(s, prefix) == Len(s) >= Len(prefix) /\ SubSeq(s, 1, Len(prefix)) = prefix
\* The text of a locator after "mapbox://".
Body(u) == SubSeq(u, Len(<<"m", "a", "p", "b", "o", "x", ":", "/", "/">>) + 1, Len(u))
\* The non-empty path segments of a locator: what follows the authority,
\* up to the query string.
PathSegments(u) ==
    LET afterScheme == SubSeq(u, IndexOf(u, <<":", "/", "/">>) + 4, Len(u))
        noQuery     == Split(afterScheme, <<"?">>)[1]
    IN  FilterNonEmpty(Tail(Split(noQuery, <<"/">>)))
\* The path and the query string of a rewritten endpoint.
OutputPath(o) == Split(SubSeq(o, Len(ApiHost) + 1, Len(o)), <<"?">>)[1]
OutputQuery(o) == SubSeq(o, IndexOf(o, <<"?">>) + 2, Len(o))

\* What the document's reference field f must hold after the call if every
\* reference is rewritten on its own.
ExpectedField(f, eligible, role, tok) ==
    IF eligible /\ transformMapboxUrl(f.v, role, tok).kind = "url"
    THEN Str(transformMapboxUrl(f.v, role, tok).url)
    ELSE f

(***************************************************************************)
(* C1: transformMapboxStyle returns normally for every document and every  *)
(* token, malformed "mapbox:" references included: no error escapes it.    *)
(***************************************************************************)
C1_NeverThrows == pc # "threw"

(***************************************************************************)
(* C2: failure is per reference: once the call is over, a malformed        *)
(* reference holds its original value and every other reference of the     *)
(* document holds what rewriting it alone yields.                          *)
(***************************************************************************)
C2_FailurePerReference ==
    Finished =>
        /\ \A i \in 1..Len(arg.sources.entries) :
              style.sources.entries[i].url =
                  ExpectedField(arg.sources.entries[i].url,
                                sourceEligible(arg.sources.entries[i]), "Source", accessToken)
        /\ style.sprite = ExpectedField(arg.sprite, spriteEligible(arg.sprite), "Sprite", accessToken)
        /\ style.glyphs = ExpectedField(arg.glyphs, glyphsEligible(arg.glyphs), "Glyphs", accessToken)

(***************************************************************************)
(* C3: the end-to-end scenario: the document with source a, the sprite,    *)
(* the glyphs template and the globe projection, token "TKN", comes back   *)
(* with the three endpoints rewritten and projection = {type: "globe"}.    *)
(***************************************************************************)
E2EDoc ==
    [projection |-> Projection([name |-> "globe", type |-> "globe"]),
     sources    |-> [present |-> TRUE,
                     entries |-> <<[id |-> "a", url |-> Str(<<"m", "a", "p", "b", "o", "x", ":", "/", "/", "u", "s", "e", "r", ".", "t", "i", "l", "e", "s", "e", "t">>), attrs |-> <<>>]>>],
     sprite     |-> Str(<<"m", "a", "p", "b", "o", "x", ":", "/", "/", "s", "p", "r", "i", "t", "e", "s", "/", "u", "s", "e", "r", "/", "s", "t", "y", "l", "e">>),
     glyphs     |-> Str(<<"m", "a", "p", "b", "o", "x", ":", "/", "/", "f", "o", "n", "t", "s", "/", "u", "s", "e", "r", "/", "{", "f", "o", "n", "t", "s", "t", "a", "c", "k", "}", "/", "{", "r", "a", "n", "g", "e", "}", ".", "p", "b", "f">>),
     version    |-> 8,
     layers     |-> Layers]

E2EExpected ==
    [projection |-> Projection([type |-> "globe"]),
     sources    |-> [present |-> TRUE,
                     entries |-> <<[id |-> "a",
                                    url |-> Str(<<"h", "t", "t", "p", "s", ":", "/", "/", "a", "p", "i", ".", "m", "a", "p", "b", "o", "x", ".", "c", "o", "m", "/", "v", "4", "/", "u", "s", "e", "r", ".", "t", "i", "l", "e", "s", "e", "t", ".", "j", "s", "o", "n", "?", "s", "e", "c", "u", "r", "e", "&", "a", "c", "c", "e", "s", "s", "_", "t", "o", "k", "e", "n", "=", "T", "K", "N">>),
                                    attrs |-> <<>>]>>],
     sprite     |-> Str(<<"h", "t", "t", "p", "s", ":", "/", "/", "a", "p", "i", ".", "m", "a", "p", "b", "o", "x", ".", "c", "o", "m", "/", "s", "t", "y", "l", "e", "s", "/", "v", "1", "/", "u", "s", "e", "r", "/", "s", "t", "y", "l", "e", "/", "s", "p", "r", "i", "t", "e", "?", "a", "c", "c", "e", "s", "s", "_", "t", "o", "k", "e", "n", "=", "T", "K", "N">>),
     glyphs     |-> Str(<<"h", "t", "t", "p", "s", ":", "/", "/", "a", "p", "i", ".", "m", "a", "p", "b", "o", "x", ".", "c", "o", "m", "/", "f", "o", "n", "t", "s", "/", "v", "1", "/", "u", "s", "e", "r", "/", "{", "f", "o", "n", "t", "s", "t", "a", "c", "k", "}", "/", "{", "r", "a", "n", "g", "e", "}", ".", "p", "b", "f", "?", "a", "c", "c", "e", "s", "s", "_", "t", "o", "k", "e", "n", "=", "T", "K", "N">>),
     version    |-> 8,
     layers     |-> Layers]

C3_EndToEnd ==
    (Finished /\ arg = E2EDoc /\ accessToken = <<"T", "K", "N">>) => (pc = "returned" /\ style = E2EExpected)

C3_Witness == pc = "returned" /\ arg = E2EDoc /\ accessToken = <<"T", "K", "N">>

(***************************************************************************)
(* C4: a locator mapbox://user/styleid rewritten by normalizeStyleURL.     *)
(* As claimed: the output is                                               *)
(*   https://api.mapbox.com/styles/v1/user/styleid?access_token=TOKEN.     *)
(* As the code has it: the owner segment is the locator's authority, which *)
(* formatUrl replaces, so the output is                                    *)
(*   https://api.mapbox.com/styles/v1/styleid?access_token=TOKEN.          *)
(***************************************************************************)
OwnerStyleShape(u) ==
    /\ StartsWith(u, <<"m", "a", "p", "b", "o", "x", ":", "/", "/">>)
    /\ ~Contains(Body(u), <<"?">>)
    /\ LET parts == Split(Body(u), <<"/">>)
       IN  Len(parts) = 2 /\ parts[1] # <<>> /\ parts[2] # <<>>
Owner(u) == Split(Body(u), <<"/">>)[1]
StyleId(u) == Split(Body(u), <<"/">>)[2]

C4_OwnerAndStyleIdInPath ==
    (pc = "returned" /\ fn = "normalizeStyleURL" /\ OwnerStyleShape(url)) =>
        ret = ReturnedUrl(ApiHost \o <<"/", "s", "t", "y", "l", "e", "s", "/", "v", "1", "/">> \o Owner(url) \o <<"/">> \o StyleId(url)
                              \o <<"?", "a", "c", "c", "e", "s", "s", "_", "t", "o", "k", "e", "n", "=">> \o accessToken)

C4_StyleIdOnlyInPath ==
    (pc = "returned" /\ fn = "normalizeStyleURL" /\ OwnerStyleShape(url)) =>
        ret = ReturnedUrl(ApiHost \o <<"/", "s", "t", "y", "l", "e", "s", "/", "v", "1", "/">> \o StyleId(url)
                              \o <<"?", "a", "c", "c", "e", "s", "s", "_", "t", "o", "k", "e", "n", "=">> \o accessToken)

C4_Witness ==
    /\ pc = "returned" /\ fn = "normalizeStyleURL"
    /\ url = <<"m", "a", "p", "b", "o", "x", ":", "/", "/", "u", "s", "e", "r", "/", "s", "t", "y", "l", "e", "i", "d">> /\ accessToken = <<"T", "K", "N">>
    /\ ret.kind = "url"

(***************************************************************************)
(* C5: a sprite locator mapbox://sprites/{owner}/{styleid}@2x is rewritten *)
(* to the path /styles/v1/{owner}/{styleid}/sprite@2x: the marker appears  *)
(* once, after "sprite", and not on the style identifier.                  *)
(***************************************************************************)
RetinaSpriteShape(u) ==
    /\ StartsWith(u, <<"m", "a", "p", "b", "o", "x", ":", "/", "/", "s", "p", "r", "i", "t", "e", "s", "/">>)
    /\ ~Contains(u, <<"?">>)
    /\ LET parts == Split(SubSeq(u, Len(<<"m", "a", "p", "b", "o", "x", ":", "/", "/", "s", "p", "r", "i", "t", "e", "s", "/">>) + 1, Len(u)), <<"/">>)
       IN  /\ Len(parts) = 2
           /\ parts[1] # <<>> /\ ~Contains(parts[1], <<"@", "2", "x">>)
           /\ EndsWith(parts[2], <<"@", "2", "x">>) /\ Len(parts[2]) > 3
           /\ ~Contains(SubSeq(parts[2], 1, Len(parts[2]) - 3), <<"@", "2", "x">>)
RetinaOwner(u) == Split(SubSeq(u, Len(<<"m", "a", "p", "b", "o", "x", ":", "/", "/", "s", "p", "r", "i", "t", "e", "s", "/">>) + 1, Len(u)), <<"/">>)[1]
RetinaStyleId(u) ==
    LET s == Split(SubSeq(u, Len(<<"m", "a", "p", "b", "o", "x", ":", "/", "/", "s", "p", "r", "i", "t", "e", "s", "/">>) + 1, Len(u)), <<"/">>)[2]
    IN  SubSeq(s, 1, Len(s) - 3)

C5_RetinaMarkerOnce ==
    (pc = "returned" /\ fn = "normalizeSpriteURL" /\ RetinaSpriteShape(url)) =>
        /\ ret.kind = "url"
        /\ OutputPath(ret.url) =
              <<"/", "s", "t", "y", "l", "e", "s", "/", "v", "1", "/">> \o RetinaOwner(url) \o <<"/">> \o RetinaStyleId(url) \o <<"/", "s", "p", "r", "i", "t", "e", "@", "2", "x">>

(***************************************************************************)
(* C6: a sprite locator whose path has at least two non-empty segments is  *)
(* rewritten to the path /styles/v1/{first}/{second}/sprite, followed by   *)
(* "@2x" iff the raw locator contains "@2x": later segments are dropped    *)
(* and no extension is appended.                                           *)
(***************************************************************************)
C6_SpriteTwoSegments ==
    (pc = "returned" /\ fn = "normalizeSpriteURL" /\ ret.kind = "url"
        /\ Len(PathSegments(url)) >= 2) =>
        /\ StartsWith(ret.url, ApiHost)
        /\ OutputPath(ret.url) =
              <<"/", "s", "t", "y", "l", "e", "s", "/", "v", "1", "/">> \o PathSegments(url)[1] \o <<"/">> \o PathSegments(url)[2]
                  \o <<"/", "s", "p", "r", "i", "t", "e">> \o (IF Contains(url, <<"@", "2", "x">>) THEN <<"@", "2", "x">> ELSE <<>>)

C6_Witness ==
    /\ pc = "returned" /\ fn = "normalizeSpriteURL" /\ ret.kind = "url"
    /\ Len(PathSegments(url)) >= 3
    /\ Contains(url, <<"@", "2", "x">>)

(***************************************************************************)
(* C7: a source locator mapbox://{tileset-id} (authority only) rewritten   *)
(* by normalizeSourceURL is                                                *)
(*   https://api.mapbox.com/v4/{tileset-id}.json?secure&access_token=TOKEN *)
(***************************************************************************)
TilesetShape(u) ==
    /\ StartsWith(u, <<"m", "a", "p", "b", "o", "x", ":", "/", "/">>)
    /\ ~Contains(Body(u), <<"/">>)
    /\ ~Contains(Body(u), <<"?">>)

C7_SourceEndpoint ==
    (pc = "returned" /\ fn = "normalizeSourceURL" /\ TilesetShape(url)) =>
        ret = ReturnedUrl(ApiHost \o <<"/", "v", "4", "/">> \o Body(url) \o <<".", "j", "s", "o", "n", "?", "s", "e", "c", "u", "r", "e", "&", "a", "c", "c", "e", "s", "s", "_", "t", "o", "k", "e", "n", "=">> \o accessToken)

C7_Witness ==
    /\ pc = "returned" /\ fn = "normalizeSourceURL"
    /\ url = <<"m", "a", "p", "b", "o", "x", ":", "/", "/", "t", "i", "l", "e", "s", "e", "t", "-", "i", "d">> /\ accessToken = <<"T", "K", "N">>
    /\ ret.kind = "url"

(***************************************************************************)
(* C8: a glyphs locator mapbox://fonts/{path} is rewritten to              *)
(*   https://api.mapbox.com/fonts/v1/{path}?access_token=TOKEN             *)
(* with the path after the "fonts" authority verbatim, as for              *)
(* mapbox://fonts/user/{fontstack}/{range}.pbf.                            *)
(***************************************************************************)
GlyphsShape(u) ==
    /\ StartsWith(u, <<"m", "a", "p", "b", "o", "x", ":", "/", "/", "f", "o", "n", "t", "s", "/">>)
    /\ Len(u) > Len(<<"m", "a", "p", "b", "o", "x", ":", "/", "/", "f", "o", "n", "t", "s", "/">>)
    /\ ~Contains(u, <<"?">>)

C8_GlyphsEndpoint ==
    (pc = "returned" /\ fn = "normalizeGlyphsURL" /\ GlyphsShape(url)) =>
        ret = ReturnedUrl(ApiHost \o <<"/", "f", "o", "n", "t", "s", "/", "v", "1">> \o SubSeq(url, Len(<<"m", "a", "p", "b", "o", "x", ":", "/", "/", "f", "o", "n", "t", "s">>) + 1, Len(url))
                              \o <<"?", "a", "c", "c", "e", "s", "s", "_", "t", "o", "k", "e", "n", "=">> \o accessToken)

C8_Witness ==
    /\ pc = "returned" /\ fn = "normalizeGlyphsURL"
    /\ url = <<"m", "a", "p", "b", "o", "x", ":", "/", "/", "f", "o", "n", "t", "s", "/", "u", "s", "e", "r", "/", "{", "f", "o", "n", "t", "s", "t", "a", "c", "k", "}", "/", "{", "r", "a", "n", "g", "e", "}", ".", "p", "b", "f">> /\ accessToken = <<"T", "K", "N">>
    /\ ret = ReturnedUrl(<<"h", "t", "t", "p", "s", ":", "/", "/", "a", "p", "i", ".", "m", "a", "p", "b", "o", "x", ".", "c", "o", "m", "/", "f", "o", "n", "t", "s", "/", "v", "1", "/", "u", "s", "e", "r", "/", "{", "f", "o", "n", "t", "s", "t", "a", "c", "k", "}", "/", "{", "r", "a", "n", "g", "e", "}", ".", "p", "b", "f", "?", "a", "c", "c", "e", "s", "s", "_", "t", "o", "k", "e", "n", "=", "T", "K", "N">>)

(***************************************************************************)
(* C9: transformMapboxUrl classifies by the first rule that applies, in    *)
(* this order: "/styles/" without "/sprite" -> Style; "/sprites/" ->       *)
(* Sprite; "/fonts/" -> Glyphs; "/v4/" -> Source; field role Source ->     *)
(* Source; otherwise no rewrite.  The substring rules come before the      *)
(* role.                                                                   *)
(***************************************************************************)
RuleApplies(u, role) ==
    <<Contains(u, <<"/", "s", "t", "y", "l", "e", "s", "/">>) /\ ~Contains(u, <<"/", "s", "p", "r", "i", "t", "e">>),
      Contains(u, <<"/", "s", "p", "r", "i", "t", "e", "s", "/">>),
      Contains(u, <<"/", "f", "o", "n", "t", "s", "/">>),
      Contains(u, <<"/", "v", "4", "/">>),
      role = "Source",
      TRUE>>
RuleKind == <<"Style", "Sprite", "Glyphs", "Source", "Source", "None">>
FirstRule(u, role) ==
    CHOOSE i \in 1..6 : RuleApplies(u, role)[i] /\ \A j \in 1..(i - 1) : ~RuleApplies(u, role)[j]
ExpectedKind(u, role) == RuleKind[FirstRule(u, role)]
RewriteAs(kind, u, tok) ==
    CASE kind = "Style"  -> Outcome(normalizeStyleURL(u, tok))
      [] kind = "Sprite" -> Outcome(normalizeSpriteURL(u, tok))
      [] kind = "Glyphs" -> Outcome(normalizeGlyphsURL(u, tok))
      [] kind = "Source" -> Outcome(normalizeSourceURL(u, tok))
      [] OTHER           -> Undefined

C9_ClassificationOrder ==
    (pc = "returned" /\ fn = "transformMapboxUrl") =>
        /\ ret = RewriteAs(ExpectedKind(url, resourceType), url, accessToken)
        /\ (ExpectedKind(url, resourceType) = "Glyphs" /\ ret.kind = "url")
              => (StartsWith(ret.url, ApiHost \o <<"/", "f", "o", "n", "t", "s", "/", "v", "1">>) /\ ~Contains(ret.url, <<"s", "e", "c", "u", "r", "e">>))
        /\ (ExpectedKind(url, resourceType) = "None") => ret.kind = "undefined"

C9_Witness ==
    /\ pc = "returned" /\ fn = "transformMapboxUrl" /\ resourceType = "Source"
    /\ Contains(url, <<"/", "f", "o", "n", "t", "s", "/">>) /\ Contains(url, <<"/", "v", "4", "/">>)
    /\ ret.kind = "url" /\ StartsWith(ret.url, ApiHost \o <<"/", "f", "o", "n", "t", "s", "/", "v", "1">>)

(***************************************************************************)
(* C10: the query string of every rewritten endpoint is the locator's      *)
(* query fragments in their order, then "secure" for the Source kind only, *)
(* then access_token={token} last, joined with "&" after a single "?".     *)
(***************************************************************************)
CallKind ==
    CASE fn = "transformMapboxUrl" -> ExpectedKind(url, resourceType)
      [] fn = "normalizeStyleURL"  -> "Style"
      [] fn = "normalizeSpriteURL" -> "Sprite"
      [] fn = "normalizeGlyphsURL" -> "Glyphs"
      [] fn = "normalizeSourceURL" -> "Source"
      [] OTHER                     -> "None"

C11_SecondCallNoOp ==
    (calls = 2 /\ Finished) => (pc = "returned" /\ style = arg)

\* A second call is over on a document whose sprite the first call rewrote.
C11_Witness ==
    /\ calls = 2
    /\ pc = "returned"
    /\ style.sprite.t = "string"
    /\ StartsWith(style.sprite.v, ApiHost)

(***************************************************************************)
(* C12: when the projection descriptor has a name before the call, the     *)
(* descriptor has none once the call is over, whether the call returned    *)
(* or threw and whether or not a reference was rewritten; the descriptor's *)
(* other fields are the same as before.                                    *)
(***************************************************************************)
HasProjectionName(s) == s.projection.present /\ "name" \in DOMAIN s.projection.obj

C12_ProjectionNameRemoved ==
    (Finished /\ HasProjectionName(arg)) =>
        /\ style.projection.present
        /\ DOMAIN style.projection.obj = (DOMAIN arg.projection.obj) \ {"name"}
        /\ \A k \in DOMAIN style.projection.obj : style.projection.obj[k] = arg.projection.obj[k]

\* The call threw at its first reference: no reference was rewritten, and
\* the name had been removed before.
C12_Witness ==
    /\ pc = "threw"
    /\ HasProjectionName(arg)
    /\ arg.sources.present /\ arg.sources.entries # <<>>
    /\ style.sources = arg.sources /\ style.sprite = arg.sprite /\ style.glyphs = arg.glyphs
    /\ "type" \in DOMAIN style.projection.obj

(***************************************************************************)
(* C13: a sources entry whose url is absent, empty, or a string that does  *)
(* not begin with "mapbox:" (https URLs containing /styles/, /fonts/,      *)
(* /sprites/ or /v4/ among them) is the same entry, url and attributes,    *)
(* once the call is over.                                                  *)
(***************************************************************************)
HasMapboxPrefix(f) == f.t = "string" /\ StartsWith(f.v, <<"m", "a", "p", "b", "o", "x", ":">>)

C13_ForeignSourceUntouched ==
    Finished =>
        \A i \in 1..Len(arg.sources.entries) :
            ~HasMapboxPrefix(arg.sources.entries[i].url) =>
                style.sources.entries[i] = arg.sources.entries[i]

\* A returned call rewrote one entry and left in place an https entry
\* holding the four marker substrings.
C13_Witness ==
    /\ pc = "returned"
    /\ Len(arg.sources.entries) = 2
    /\ arg.sources.entries[1].url.t = "string"
    /\ StartsWith(arg.sources.entries[1].url.v, <<"h", "t", "t", "p", "s", ":">>)
    /\ Contains(arg.sources.entries[1].url.v, <<"/", "s", "t", "y", "l", "e", "s", "/">>)
    /\ Contains(arg.sources.entries[1].url.v, <<"/", "s", "p", "r", "i", "t", "e", "s", "/">>)
    /\ Contains(arg.sources.entries[1].url.v, <<"/", "f", "o", "n", "t", "s", "/">>)
    /\ Contains(arg.sources.entries[1].url.v, <<"/", "v", "4", "/">>)
    /\ style.sources.entries[1] = arg.sources.entries[1]
    /\ style.sources.entries[2].url # arg.sources.entries[2].url

(***************************************************************************)
(* C14: once the call is over the document differs from the one passed     *)
(* at most in projection.name, the url of sources entries, sprite and      *)
(* glyphs: the other top-level fields, the presence and the ids of the     *)
(* sources, and every other attribute of each source are as before.        *)
(***************************************************************************)
RewritableFields == {"projection", "sources", "sprite", "glyphs"}

C14_OnlyReferenceFieldsChange ==
    Finished =>
        /\ DOMAIN style = DOMAIN arg
        /\ \A k \in (DOMAIN arg) \ RewritableFields : style[k] = arg[k]
        /\ style.projection.present = arg.projection.present
        /\ \A k \in (DOMAIN arg.projection.obj) \ {"name"} :
              k \in DOMAIN style.projection.obj /\ style.projection.obj[k] = arg.projection.obj[k]
        /\ style.sources.present = arg.sources.present
        /\ Len(style.sources.entries) = Len(arg.sources.entries)
        /\ \A i \in 1..Len(arg.sources.entries) :
              /\ DOMAIN style.sources.entries[i] = DOMAIN arg.sources.entries[i]
              /\ style.sources.entries[i].id = arg.sources.entries[i].id
              /\ style.sources.entries[i].attrs = arg.sources.entries[i].attrs

\* A returned call rewrote the url of a source that has a type and a tiles
\* list, and the sprite and the glyphs.
C14_Witness ==
    /\ pc = "returned"
    /\ Len(arg.sources.entries) = 2
    /\ "tiles" \in DOMAIN arg.sources.entries[2].attrs
    /\ style.sources.entries[2].url # arg.sources.entries[2].url
    /\ style.sprite # arg.sprite
    /\ style.glyphs # arg.glyphs
    /\ style.layers # <<>>

(***************************************************************************)
(* C15: the sprite differs after the call only if it was a string          *)
(* beginning with "mapbox:" for which classification yields a kind; a      *)
(* multi-sprite value, even one whose entries hold "mapbox:" URLs, and a   *)
(* string without the prefix are as before.  The glyphs differ after the   *)
(* call only if they began with "mapbox:".                                 *)
(***************************************************************************)
C15_SpriteAndGlyphsGuards ==
    Finished =>
        /\ (style.sprite # arg.sprite) =>
              (HasMapboxPrefix(arg.sprite) /\ ExpectedKind(arg.sprite.v, "Sprite") # "None")
        /\ (arg.sprite.t # "string") => (style.sprite = arg.sprite)
        /\ (style.glyphs # arg.glyphs) => HasMapboxPrefix(arg.glyphs)

\* A returned call rewrote the glyphs and left a multi-sprite value holding
\* a "mapbox:" URL as it was.
C15_Witness ==
    /\ pc = "returned"
    /\ arg.sprite.t = "array"
    /\ StartsWith(arg.sprite.items[1].url, <<"m", "a", "p", "b", "o", "x", ":">>)
    /\ style.sprite = arg.sprite
    /\ style.glyphs # arg.glyphs

(***************************************************************************)
(* C16: isMapboxURL returns true exactly when the first seven characters   *)
(* of the string are "mapbox:", in lower case; nothing is required after   *)
(* the colon, and the prefix at a later position gives false.              *)
(***************************************************************************)
C16_LiteralPrefixAtZero ==
    (pc = "returned" /\ fn = "isMapboxURL") =>
        (ret.value <=>
            (Len(url) >= 7 /\ \A i \in 1..7 : url[i] = <<"m", "a", "p", "b", "o", "x", ":">>[i]))

\* True for a string with the prefix and no slash at all.
C16_Witness ==
    /\ pc = "returned" /\ fn = "isMapboxURL"
    /\ ret.value
    /\ ~Contains(url, <<"/">>)
    /\ Len(url) > 7

(***************************************************************************)
(* C17: once the call is over, each source url, the sprite and the glyphs  *)
(* either hold exactly their original value or hold the rewritten          *)
(* endpoint, which begins with "https://api.mapbox.com/" whatever the      *)
(* authority of the locator was.                                           *)
(***************************************************************************)
ApiBase == <<"h", "t", "t", "p", "s", ":", "/", "/", "a", "p", "i", ".", "m", "a", "p", "b", "o", "x", ".", "c", "o", "m", "/">>

OriginalOrApiEndpoint(after, before, eligible, role) ==
    \/ after = before
    \/ /\ after = ExpectedField(before, eligible, role, accessToken)
       /\ after.t = "string"
       /\ StartsWith(after.v, ApiBase)

C17_WrittenValuesOnApiHost ==
    Finished =>
        /\ \A i \in 1..Len(arg.sources.entries) :
              OriginalOrApiEndpoint(style.sources.entries[i].url, arg.sources.entries[i].url,
                                    sourceEligible(arg.sources.entries[i]), "Source")
        /\ OriginalOrApiEndpoint(style.sprite, arg.sprite, spriteEligible(arg.sprite), "Sprite")
        /\ OriginalOrApiEndpoint(style.glyphs, arg.glyphs, glyphsEligible(arg.glyphs), "Glyphs")

\* A returned call rewrote a tileset source, a sprite and the glyphs, whose
\* authorities were user.tileset, sprites and fonts, and left one source
\* as it was.
C17_Witness ==
    /\ pc = "returned"
    /\ Len(arg.sources.entries) = 2
    /\ arg.sources.entries[1].url = Str(<<"m", "a", "p", "b", "o", "x", ":", "/", "/", "u", "s", "e", "r", ".", "t", "i", "l", "e", "s", "e", "t">>)
    /\ StartsWith(style.sources.entries[1].url.v, ApiBase)
    /\ style.sources.entries[2].url = arg.sources.entries[2].url
    /\ HasMapboxPrefix(arg.sprite) /\ StartsWith(style.sprite.v, ApiBase)
    /\ HasMapboxPrefix(arg.glyphs) /\ StartsWith(style.glyphs.v, ApiBase)

(***************************************************************************)
(* C18: the three groups of references (sources, sprite, glyphs) and the   *)
(* entries of sources may be processed in any order: every order ends      *)
(* with the same document and the same outcome, return or error, as the    *)
(* call did.                                                               *)
(***************************************************************************)
Groups == {"sources", "sprite", "glyphs"}
GroupOrders == {o \in [1..3 -> Groups] : \A i, j \in 1..3 : o[i] = o[j] => i = j}
SourceOrders(n) == {p \in [1..n -> 1..n] : \A i, j \in 1..n : p[i] = p[j] => i = j}

\* The references of a document in the order given by the order o of the
\* groups and the order p of the sources entries.
RefsOfGroup(s, g, p) ==
    IF g = "sources"
    THEN IF s.sources.present THEN [k \in 1..Len(p) |-> [group |-> g, i |-> p[k]]] ELSE <<>>
    ELSE <<[group |-> g, i |-> 0]>>
RefsInOrder(s, o, p) == RefsOfGroup(s, o[1], p) \o RefsOfGroup(s, o[2], p) \o RefsOfGroup(s, o[3], p)

RefValue(s, ref) == IF ref.group = "sources" THEN s.sources.entries[ref.i].url ELSE s[ref.group]
RefEligible(s, ref) ==
    CASE ref.group = "sources" -> sourceEligible(s.sources.entries[ref.i])
      [] ref.group = "sprite"  -> spriteEligible(s.sprite)
      [] ref.group = "glyphs"  -> glyphsEligible(s.glyphs)
RefRole(ref) ==
    CASE ref.group = "sources" -> "Source"
      [] ref.group = "sprite"  -> "Sprite"
      [] ref.group = "glyphs"  -> "Glyphs"
SetRef(s, ref, f) ==
    IF ref.group = "sources" THEN [s EXCEPT !.sources.entries[ref.i].url = f]
    ELSE [s EXCEPT ![ref.group] = f]

\* The walk over the references in a given order, each rewritten as the
\* engine rewrites it; an error ends the walk.
RECURSIVE WalkRefs(_, _, _)
WalkStep(s, refs, r, tok) ==
    IF r.threw THEN [style |-> s, threw |-> TRUE]
    ELSE WalkRefs(SetRef(s, Head(refs), r.f), Tail(refs), tok)
WalkRefs(s, refs, tok) ==
    IF refs = <<>> THEN [style |-> s, threw |-> FALSE]
    ELSE WalkStep(s, refs,
                  rewriteField(RefValue(s, Head(refs)), RefEligible(s, Head(refs)),
                               RefRole(Head(refs)), tok),
                  tok)
TransformInOrder(s, o, p, tok) ==
    WalkRefs([s EXCEPT !.projection = stripProjectionName(@)], RefsInOrder(s, o, p), tok)

C18_OrderIrrelevant ==
    Finished =>
        \A o \in GroupOrders, p \in SourceOrders(Len(arg.sources.entries)) :
            TransformInOrder(arg, o, p, accessToken) = [style |-> style, threw |-> (pc = "threw")]

(***************************************************************************)
(* C19: when transformMapboxStyle returns, the value returned is the       *)
(* reference to the object that was passed, and that object holds the      *)
(* rewritten fields: no copy is made.                                      *)
(***************************************************************************)
C19_MutatesAndReturnsArgument ==
    (pc = "returned" /\ fn = "none") =>
        /\ ret = [kind |-> "object", ref |-> "style"]
        /\ \A i \in 1..Len(arg.sources.entries) :
              style.sources.entries[i].url =
                  ExpectedField(arg.sources.entries[i].url,
                                sourceEligible(arg.sources.entries[i]), "Source", accessToken)
        /\ style.sprite = ExpectedField(arg.sprite, spriteEligible(arg.sprite), "Sprite", accessToken)
        /\ style.glyphs = ExpectedField(arg.glyphs, glyphsEligible(arg.glyphs), "Glyphs", accessToken)
        /\ ~HasProjectionName(style)

\* A first call returned the reference it was given, and the object it
\* denotes is no longer what was passed.
C19_Witness ==
    /\ pc = "returned" /\ fn = "none" /\ calls = 1
    /\ ret.kind = "object" /\ ret.ref = "style"
    /\ style.sprite # arg.sprite
    /\ style.sources # arg.sources
    /\ style.projection # arg.projection

(***************************************************************************)
(* C20: every value the call writes ends with the parameter                *)
(* access_token={token}, after "?" or "&", the token copied character for  *)
(* character whatever it holds; and a call with the empty token rewrites   *)
(* the same references, with the same outcome, as a call with "TKN".       *)
(***************************************************************************)
EndsWithToken(v, tok) ==
    \/ EndsWith(v, <<"?", "a", "c", "c", "e", "s", "s", "_", "t", "o", "k", "e", "n", "=">> \o tok)
    \/ EndsWith(v, <<"&", "a", "c", "c", "e", "s", "s", "_", "t", "o", "k", "e", "n", "=">> \o tok)

TokenLast(after, before) == (after # before) => EndsWithToken(after.v, accessToken)

\* after is the field once the call with the token tok is over, other the
\* same field after the call with "TKN": rewritten or not alike, and alike
\* up to the token.
SameButToken(after, other, before, tok) ==
    /\ (after = before) <=> (other = before)
    /\ (after # before) =>
          SubSeq(after.v, 1, Len(after.v) - Len(tok))
              = SubSeq(other.v, 1, Len(other.v) - Len(<<"T", "K", "N">>))

SameRewritesAs(r) ==
    /\ r.threw = (pc = "threw")
    /\ \A i \in 1..Len(arg.sources.entries) :
          SameButToken(style.sources.entries[i].url, r.style.sources.entries[i].url,
                       arg.sources.entries[i].url, accessToken)
    /\ SameButToken(style.sprite, r.style.sprite, arg.sprite, accessToken)
    /\ SameButToken(style.glyphs, r.style.glyphs, arg.glyphs, accessToken)

C20_TokenVerbatimAndLast ==
    Finished =>
        /\ \A i \in 1..Len(arg.sources.entries) :
              TokenLast(style.sources.entries[i].url, arg.sources.entries[i].url)
        /\ TokenLast(style.sprite, arg.sprite)
        /\ TokenLast(style.glyphs, arg.glyphs)
        /\ (accessToken = <<>>) => SameRewritesAs(transformMapboxStyle(arg, <<"T", "K", "N">>))

\* A call with the empty token returned, and the sprite it wrote ends
\* with "access_token=".
C20_Witness ==
    /\ pc = "returned"
    /\ accessToken = <<>>
    /\ style.sprite # arg.sprite
    /\ EndsWith(style.sprite.v, <<"a", "c", "c", "e", "s", "s", "_", "t", "o", "k", "e", "n", "=">>)
    /\ style.glyphs # arg.glyphs
    /\ style.sources # arg.sources

WordAlphabet ==
    {"a", "b", "c", "d", "e", "f", "g", "h", "i", "j", "k", "l", "m", "n", "o", "p", "q", "r",
     "s", "t", "u", "v", "w", "x", "y", "z", "A", "B", "C", "D", "E", "F", "G", "H", "I", "J",
     "K", "L", "M", "N", "O", "P", "Q", "R", "S", "T", "U", "V", "W", "X", "Y", "Z", "0", "1",
     "2", "3", "4", "5", "6", "7", "8", "9", "_"}
\* The length of what precedes the first "://", -1 when there is none.
SchemeLen(u) == IndexOf(u, <<":", "/", "/">>)
MatchesLocatorPattern(u) == SchemeLen(u) >= 1 /\ \A i \in 1..SchemeLen(u) : u[i] \in WordAlphabet
AfterScheme(u) == SubSeq(u, SchemeLen(u) + 4, Len(u))
ExpectedAuthority(u) == Split(Split(AfterScheme(u), <<"/">>)[1], <<"?">>)[1]
AfterAuthority(u) == SubSeq(AfterScheme(u), Len(ExpectedAuthority(u)) + 1, Len(AfterScheme(u)))
ExpectedPath(u) ==
    IF Split(AfterAuthority(u), <<"?">>)[1] = <<>> THEN <<"/">> ELSE Split(AfterAuthority(u), <<"?">>)[1]
QueryString(u) == SubSeq(u, IndexOf(u, <<"?">>) + 2, Len(u))
ExpectedParams(u) ==
    IF ~Contains(u, <<"?">>) \/ QueryString(u) = <<>> THEN <<>> ELSE Split(QueryString(u), <<"&">>)

C22_ParseUrlOutput ==
    (pc = "returned" /\ fn = "parseUrl" /\ MatchesLocatorPattern(url)) =>
        /\ ret.kind = "parsed"
        /\ ret.protocol = SubSeq(url, 1, SchemeLen(url))
        /\ ret.authority = ExpectedAuthority(url)
        /\ ret.path = ExpectedPath(url)
        /\ ret.params = ExpectedParams(url)

(***************************************************************************)
(* C23: parseUrl throws, returning nothing, exactly for the strings that   *)
(* do not begin with a run of word characters followed by "://"; for       *)
(* every other string it returns the parsed locator.                       *)
(***************************************************************************)
C23_ParseUrlFailsOnMismatchOnly ==
    (pc = "returned" /\ fn = "parseUrl") =>
        /\ ~MatchesLocatorPattern(url) => ret = [kind |-> "throw", url |-> <<>>]
        /\ MatchesLocatorPattern(url) => ret.kind = "parsed"

\* parseUrl threw on a string that has a colon and a slash but no "://"
\* after a word.
C23_Witness ==
    /\ pc = "returned" /\ fn = "parseUrl"
    /\ ret.kind = "throw"
    /\ Contains(url, <<":", "/">>)
    /\ ~Contains(url, <<":", "/", "/">>)

(***************************************************************************)
(* C24: the sprite fallback.  When the parsed path of a sprite locator has *)
(* fewer than two non-empty segments, the output path is                   *)
(* /styles/v1{basePath}/sprite{@2x or nothing}.{extension}: basePath is    *)
(* the path up to its first ".", cut at "@2x" when it holds one (the       *)
(* marker then follows "sprite"), and extension is the whole of the path   *)
(* after that first ".", or "json" when there is none.                     *)
(***************************************************************************)
FirstDot(path) == IndexOf(path, <<".">>)
UpToFirstDot(path) == IF FirstDot(path) = -1 THEN path ELSE SubSeq(path, 1, FirstDot(path))
AfterFirstDot(path) == IF FirstDot(path) = -1 THEN <<>> ELSE SubSeq(path, FirstDot(path) + 2, Len(path))
FallbackBase(path) == Split(UpToFirstDot(path), <<"@", "2", "x">>)[1]
FallbackMarker(path) == IF Contains(UpToFirstDot(path), <<"@", "2", "x">>) THEN <<"@", "2", "x">> ELSE <<>>
FallbackExtension(path) == IF AfterFirstDot(path) = <<>> THEN <<"j", "s", "o", "n">> ELSE AfterFirstDot(path)

C24_SpriteFallbackPath ==
    (/\ pc = "returned" /\ fn = "normalizeSpriteURL" /\ ret.kind = "url"
     /\ Len(FilterNonEmpty(Split(ExpectedPath(url), <<"/">>))) < 2) =>
        OutputPath(ret.url) =
            <<"/", "s", "t", "y", "l", "e", "s", "/", "v", "1">> \o FallbackBase(ExpectedPath(url))
                \o <<"/", "s", "p", "r", "i", "t", "e">> \o FallbackMarker(ExpectedPath(url))
                \o <<".">> \o FallbackExtension(ExpectedPath(url))

(***************************************************************************)
(* C25: when getMapStyle's fetch of the style document fails (fetch        *)
(* rejects, the response is not ok, or response.json() rejects) it         *)
(* returns the style URL it chose, unchanged, without having called        *)
(* transformMapboxStyle; getMapStyle never throws.                         *)
(***************************************************************************)
\* The style URL getMapStyle works with, read off the configured tiles.
ChosenStyleUrl ==
    IF tileUrls = <<>>
    THEN url \in {DefaultStyleBright, DefaultStyleDark}
    ELSE url = tileUrls[1]

C25_FetchFailureReturnsUrl ==
    /\ (fn = "getMapStyle") => (pc # "threw")
    /\ (fn = "getMapStyle" /\ pc = "returned"
            /\ response \in {"rejected", "not ok", "json rejected"}) =>
          /\ ret = [kind |-> "string", url |-> url]
          /\ ChosenStyleUrl
          /\ calls = 0

\* response.json() rejected for a style URL that carries a token.
C25_Witness ==
    /\ fn = "getMapStyle" /\ pc = "returned"
    /\ response = "json rejected"
    /\ Contains(url, <<"a", "c", "c", "e", "s", "s", "_", "t", "o", "k", "e", "n", "=", "T", "K", "N">>)
    /\ ret.kind = "string" /\ ret.url = url

(***************************************************************************)
(* C26: when transformMapboxStyle returns normally, no sources entry has a *)
(* url beginning with "mapbox:": every such url was rewritten, by a        *)
(* substring rule or by the Source role, so transformMapboxUrl never       *)
(* passes a source url through; only sprite and glyphs can come back       *)
(* still beginning with "mapbox:".                                         *)
(***************************************************************************)
SourceIndices == 1..Len(arg.sources.entries)

C26_NoMapboxSourceAfterReturn ==
    (pc = "returned") =>
        \A i \in SourceIndices :
            /\ ~HasMapboxPrefix(style.sources.entries[i].url)
            /\ HasMapboxPrefix(arg.sources.entries[i].url) =>
                  style.sources.entries[i].url # arg.sources.entries[i].url

\* A normal return that rewrote a source by the Source role and another by
\* a substring rule, and passed the sprite and the glyphs through.
C26_Witness ==
    /\ pc = "returned"
    /\ Len(arg.sources.entries) = 2
    /\ arg.sources.entries[1].url = Str(UrlTileset)
    /\ arg.sources.entries[2].url = Str(<<"m", "a", "p", "b", "o", "x", ":", "/", "/", "f", "o", "n", "t", "s", "/", "x">>)
    /\ \A i \in SourceIndices : style.sources.entries[i].url # arg.sources.entries[i].url
    /\ HasMapboxPrefix(style.sprite) /\ style.sprite = arg.sprite
    /\ HasMapboxPrefix(style.glyphs) /\ style.glyphs = arg.glyphs

(***************************************************************************)
(* C27: transformMapboxStyle is not atomic.  When parseUrl throws at a     *)
(* reference, what the call did before stays in the caller's document:     *)
(* projection.name is deleted and the sources before the failing one are   *)
(* rewritten; the failing field and every field after it (the remaining    *)
(* sources, sprite, glyphs) hold the values they were passed with.         *)
(***************************************************************************)
\* The references of the argument in the order of the code.
CodeRefs ==
    RefsInOrder(arg, <<"sources", "sprite", "glyphs">>,
                [i \in 1..Len(arg.sources.entries) |-> i])
\* What transformMapboxUrl answers for a reference of the argument; a
\* reference that is not eligible is not handed to it.
RefOutcome(ref) ==
    IF RefEligible(arg, ref)
    THEN transformMapboxUrl(RefValue(arg, ref).v, RefRole(ref), accessToken)
    ELSE Undefined
RefFails(ref) == RefOutcome(ref).kind = "throw"
FailsFirstAt(k) == RefFails(CodeRefs[k]) /\ \A j \in 1..(k - 1) : ~RefFails(CodeRefs[j])
\* The reference did not fail, and the document holds what the outcome o
\* makes of it: the rewritten locator, or the value passed.
HoldsOutcome(ref, o) ==
    /\ o.kind # "throw"
    /\ RefValue(style, ref) = (IF o.kind = "url" THEN Str(o.url) ELSE RefValue(arg, ref))

C27_EarlierMutationsPersist ==
    (pc = "threw") =>
        /\ ~HasProjectionName(style)
        /\ \E k \in 1..Len(CodeRefs) :
            /\ RefFails(CodeRefs[k])
            /\ \A j \in 1..(k - 1) : HoldsOutcome(CodeRefs[j], RefOutcome(CodeRefs[j]))
            /\ \A j \in k..Len(CodeRefs) : RefValue(style, CodeRefs[j]) = RefValue(arg, CodeRefs[j])

\* The call threw at its second source: the name is gone and the first
\* source is rewritten, the second source, the sprite and the glyphs are
\* as they were passed, though sprite and glyphs are well-formed references.
C27_Witness ==
    /\ pc = "threw"
    /\ HasProjectionName(arg) /\ ~HasProjectionName(style)
    /\ Len(arg.sources.entries) = 2
    /\ HasMapboxPrefix(arg.sources.entries[1].url)
    /\ style.sources.entries[1].url # arg.sources.entries[1].url
    /\ FailsFirstAt(2)
    /\ style.sources.entries[2].url = arg.sources.entries[2].url
    /\ style.sprite = arg.sprite /\ ~RefFails([group |-> "sprite", i |-> 0]) /\ spriteEligible(arg.sprite)
    /\ style.glyphs = arg.glyphs /\ ~RefFails([group |-> "glyphs", i |-> 0]) /\ glyphsEligible(arg.glyphs)

(***************************************************************************)
(* C28: in getMapStyle an error of transformMapboxStyle is caught by the   *)
(* try block of the fetch, and the style URL is returned instead of the    *)
(* fetched document.  What getMapStyle returns is the style URL, a fully   *)
(* transformed document, the fetched document untransformed, or the raster *)
(* style built from the tile URLs; never a document that a failed          *)
(* transformation left half-rewritten.                                     *)
(***************************************************************************)
FullyTransformed(doc, from, tok) ==
    /\ ~HasProjectionName(doc)
    /\ \A i \in 1..Len(from.sources.entries) :
          doc.sources.entries[i].url =
              ExpectedField(from.sources.entries[i].url,
                            sourceEligible(from.sources.entries[i]), "Source", tok)
    /\ doc.sprite = ExpectedField(from.sprite, spriteEligible(from.sprite), "Sprite", tok)
    /\ doc.glyphs = ExpectedField(from.glyphs, glyphsEligible(from.glyphs), "Glyphs", tok)
    /\ ~transformMapboxStyle(from, tok).threw

C28_TransformErrorCaught ==
    (fn = "getMapStyle" /\ pc = "returned") =>
        /\ ret.kind \in {"string", "document", "raster"}
        /\ (ret.kind = "string") => (ret.url = url)
        /\ (ret.kind = "raster") => (ret.style = rasterStyle(tileUrls) /\ calls = 0)
        /\ (ret.kind = "document") =>
              \/ calls = 0 /\ ret.style = arg
              \/ calls = 1 /\ FullyTransformed(ret.style, arg, accessToken)
        /\ (calls = 1 /\ transformMapboxStyle(arg, accessToken).threw) =>
              ret = [kind |-> "string", url |-> url]

\* The fetched document held a malformed locator after a well-formed one:
\* transformMapboxStyle rewrote part of it and threw, the URL is returned.
C28_Witness ==
    /\ fn = "getMapStyle" /\ pc = "returned"
    /\ response = "document" /\ calls = 1
    /\ transformMapboxStyle(arg, accessToken).threw
    /\ style.sources # arg.sources
    /\ ret.kind = "string" /\ ret.url = url

(***************************************************************************)
(* C29: getMapStyle calls transformMapboxStyle only when the style URL     *)
(* has a query parameter access_token with a non-empty value, and the      *)
(* token it passes is that value (the characters after "access_token=" up  *)
(* to the next "&").  When the style URL carries no such parameter the     *)
(* fetched document is returned as it was fetched, "mapbox:" references    *)
(* and projection.name included; transformMapboxStyle is never called      *)
(* with the empty token.                                                   *)
(***************************************************************************)
\* The query parameters of a URL: what follows the first "?", cut at "&".
QueryOf(u) == IF IndexOf(u, <<"?">>) = -1 THEN <<>> ELSE Drop(u, IndexOf(u, <<"?">>) + 1)
QueryParams(u) == Split(QueryOf(u), <<"&">>)
TokenParamValues(u) ==
    {Drop(QueryParams(u)[i], Len(TokenPattern)) :
        i \in {k \in DOMAIN QueryParams(u) : StartsWith(QueryParams(u)[k], TokenPattern)}}
CarriesToken(u) == \E v \in TokenParamValues(u) : v # <<>>

C29_TransformOnlyWithToken ==
    (fn = "getMapStyle") =>
        /\ calls <= 1
        /\ (calls = 1) =>
              /\ accessToken # <<>>
              /\ accessToken \in TokenParamValues(url)
        /\ (pc = "returned" /\ response = "document" /\ ~CarriesToken(url)) =>
              /\ calls = 0
              /\ style = arg
              /\ ret = [kind |-> "document", style |-> arg]

(***************************************************************************)
(* C30: what survives of the input locator depends on the kind.  A         *)
(* Source endpoint is a function of the locator's authority, its query     *)
(* fragments and the token: the path is discarded.  A Style or Glyphs      *)
(* endpoint is a function of the locator's path, its query fragments and   *)
(* the token: the authority is discarded.                                  *)
(***************************************************************************)
EndpointOf(path, params, tok) ==
    ApiHost \o path \o <<"?">>
        \o Join(Append(params, <<"a", "c", "c", "e", "s", "s", "_", "t", "o", "k", "e", "n", "=">> \o tok), <<"&">>)
SourceEndpointOf(authority, params, tok) ==
    EndpointOf(<<"/", "v", "4", "/">> \o authority \o <<".", "j", "s", "o", "n">>,
               Append(params, <<"s", "e", "c", "u", "r", "e">>), tok)
StyleEndpointOf(path, params, tok) ==
    EndpointOf(<<"/", "s", "t", "y", "l", "e", "s", "/", "v", "1">> \o path, params, tok)
GlyphsEndpointOf(path, params, tok) ==
    EndpointOf(<<"/", "f", "o", "n", "t", "s", "/", "v", "1">> \o path, params, tok)

====
